---- MODULE Spec2Model ----
(***************************************************************************)
(* Argus verification pipeline: obligation policy, translator routing,     *)
(* semantic guard, verifier drivers, repair loop, verdict contract and the *)
(* per-run trace store, modelled from src/src/core.                        *)
(*                                                                         *)
(* A Python source text is represented by the facts that ast.parse and     *)
(* ast.walk expose to the code (does it parse, which node kinds occur,     *)
(* the top-level FunctionDef nodes and what their bodies contain).  A      *)
(* translated proof artifact is represented by the facts the semantic      *)
(* guard and the verifier drivers test on its text.                        *)
(***************************************************************************)
EXTENDS Integers, Sequences, FiniteSets, TLC

\* ------------------------------------------------------------------------
\* Bounds of the model
\* ------------------------------------------------------------------------
MaxFiles == 2          \* longest file list handed to run_many
MaxResults == 2        \* longest obligation_results list of a free-standing VerificationSummary
MaxFunctions == 2      \* most top-level functions of a source handed to derive on its own
MaxDerivations == 2    \* most derive calls made on one source
MaxCalls == 2          \* most invocations of run_file / run_many sharing one trace_root
MaxClock == 2          \* last reading of the UTC clock
MaxGateFiles == 2      \* longest file list handed to run_ci_integrity_suite on its own
MaxMainFiles == 1      \* most files main of the command line collects
MaxEngineAttempts == 3 \* largest max_attempts a RepairEngine is built with on its own

\* ------------------------------------------------------------------------
\* Option values
\* ------------------------------------------------------------------------
None == << >>
Some(x) == << x >>
IsSome(o) == Len(o) = 1
Get(o) == o[1]

SeqToSet(s) == { s[i] : i \in 1..Len(s) }

\* ------------------------------------------------------------------------
\* models.py
\* ------------------------------------------------------------------------
VERIFIED == "VERIFIED"
FIXED == "FIXED"
VULNERABLE == "VULNERABLE"
UNVERIFIED == "UNVERIFIED"
ERROR == "ERROR"
Verdict == { VERIFIED, FIXED, VULNERABLE, UNVERIFIED, ERROR }

\* VerificationSummary.all_obligations_passed
all_obligations_passed(summary) ==
    /\ Len(summary.obligation_results) > 0
    /\ \A i \in 1..Len(summary.obligation_results) : summary.obligation_results[i].verified

\* ------------------------------------------------------------------------
\* verdict.py
\* ------------------------------------------------------------------------
VerdictDecision(v, r) == [verdict |-> v, reason |-> r]

\* compute_verdict with the first two rules exchanged
compute_verdict_unsupported_first(summary) ==
    IF Len(summary.unsupported_constructs) > 0
    THEN VerdictDecision(UNVERIFIED, "Unsupported constructs encountered")
    ELSE IF summary.verification_error
    THEN VerdictDecision(ERROR, "Verification runtime/tooling error")
    ELSE IF ~summary.assumptions_valid
    THEN VerdictDecision(UNVERIFIED, "Assumption evidence validation failed")
    ELSE IF ~summary.semantic_guard_passed
    THEN VerdictDecision(UNVERIFIED, "Semantic guard checks failed")
    ELSE IF all_obligations_passed(summary)
    THEN IF summary.repaired
         THEN VerdictDecision(FIXED, "All obligations passed after repair")
         ELSE VerdictDecision(VERIFIED, "All obligations passed")
    ELSE VerdictDecision(VULNERABLE, "One or more canonical obligations failed")

\* compute_verdict without the semantic-guard rule
compute_verdict_no_guard(summary) ==
    IF summary.verification_error
    THEN VerdictDecision(ERROR, "Verification runtime/tooling error")
    ELSE IF Len(summary.unsupported_constructs) > 0
    THEN VerdictDecision(UNVERIFIED, "Unsupported constructs encountered")
    ELSE IF ~summary.assumptions_valid
    THEN VerdictDecision(UNVERIFIED, "Assumption evidence validation failed")
    ELSE IF all_obligations_passed(summary)
    THEN IF summary.repaired
         THEN VerdictDecision(FIXED, "All obligations passed after repair")
         ELSE VerdictDecision(VERIFIED, "All obligations passed")
    ELSE VerdictDecision(VULNERABLE, "One or more canonical obligations failed")

\* compute_verdict without the assumption-evidence rule
compute_verdict_no_assumptions(summary) ==
    IF summary.verification_error
    THEN VerdictDecision(ERROR, "Verification runtime/tooling error")
    ELSE IF Len(summary.unsupported_constructs) > 0
    THEN VerdictDecision(UNVERIFIED, "Unsupported constructs encountered")
    ELSE IF ~summary.semantic_guard_passed
    THEN VerdictDecision(UNVERIFIED, "Semantic guard checks failed")
    ELSE IF all_obligations_passed(summary)
    THEN IF summary.repaired
         THEN VerdictDecision(FIXED, "All obligations passed after repair")
         ELSE VerdictDecision(VERIFIED, "All obligations passed")
    ELSE VerdictDecision(VULNERABLE, "One or more canonical obligations failed")

\* compute_verdict with the verification-error rule moved behind the UNVERIFIED rules
compute_verdict_error_late(summary) ==
    IF Len(summary.unsupported_constructs) > 0
    THEN VerdictDecision(UNVERIFIED, "Unsupported constructs encountered")
    ELSE IF ~summary.assumptions_valid
    THEN VerdictDecision(UNVERIFIED, "Assumption evidence validation failed")
    ELSE IF ~summary.semantic_guard_passed
    THEN VerdictDecision(UNVERIFIED, "Semantic guard checks failed")
    ELSE IF summary.verification_error
    THEN VerdictDecision(ERROR, "Verification runtime/tooling error")
    ELSE IF all_obligations_passed(summary)
    THEN IF summary.repaired
         THEN VerdictDecision(FIXED, "All obligations passed after repair")
         ELSE VerdictDecision(VERIFIED, "All obligations passed")
    ELSE VerdictDecision(VULNERABLE, "One or more canonical obligations failed")

compute_verdict(summary) ==
    IF summary.verification_error
    THEN VerdictDecision(ERROR, "Verification runtime/tooling error")
    ELSE IF Len(summary.unsupported_constructs) > 0
    THEN VerdictDecision(UNVERIFIED, "Unsupported constructs encountered")
    ELSE IF ~summary.assumptions_valid
    THEN VerdictDecision(UNVERIFIED, "Assumption evidence validation failed")
    ELSE IF ~summary.semantic_guard_passed
    THEN VerdictDecision(UNVERIFIED, "Semantic guard checks failed")
    ELSE IF all_obligations_passed(summary)
    THEN IF summary.repaired
         THEN VerdictDecision(FIXED, "All obligations passed after repair")
         ELSE VerdictDecision(VERIFIED, "All obligations passed")
    ELSE VerdictDecision(VULNERABLE, "One or more canonical obligations failed")

VerificationSummary(results, av, unsupported, guard, verr, repaired) ==
    [ obligation_results |-> results,
      assumptions_valid |-> av,
      unsupported_constructs |-> unsupported,
      semantic_guard_passed |-> guard,
      verification_error |-> verr,
      repaired |-> repaired ]

\* ------------------------------------------------------------------------
\* Source texts, as the facts ast.parse / ast.walk give about them
\* ------------------------------------------------------------------------
\* unsupported-construct markers in the sorted order derive() returns them
ConstructOrder == << "async_function", "await_expression", "class_definition", "generator_yield" >>

FunctionDef(name, params, loop, subscript, minus, list_append, concat_append) ==
    [ name |-> name, params |-> params, has_loop |-> loop, has_subscript |-> subscript,
      has_minus |-> minus, has_list_append |-> list_append,
      has_concat_append |-> concat_append ]

Module(parses, nodes, loops, body, text) ==
    [ parses |-> parses,      \* ast.parse does not raise SyntaxError
      nodes |-> nodes,        \* which of the unsupported node kinds ast.walk meets
      has_loops |-> loops,    \* a For or While node anywhere in the tree
      body |-> body,          \* the top-level FunctionDef nodes, in order
      text |-> text ]         \* which of the substrings the gates search for occur

\* def withdraw(balance: int, amount: int) -> int: return balance - amount
SrcWithdraw ==
    Module(TRUE, {}, FALSE,
           << FunctionDef("withdraw", {"balance", "amount"}, FALSE, FALSE, TRUE, FALSE, FALSE) >>,
           { "return balance" })
\* async def worker(): return 1
SrcAsyncWorker == Module(TRUE, {"async_function"}, FALSE, << >>, {})
\* def get_item(items: list[int], i: int) -> int: return items[i]
SrcGetItem ==
    Module(TRUE, {}, FALSE,
           << FunctionDef("get_item", {"items", "i"}, FALSE, TRUE, FALSE, FALSE, FALSE) >>, {})
\* def total(xs): s = 0 \n for x in xs: s += x \n return s
SrcTotal ==
    Module(TRUE, {}, TRUE,
           << FunctionDef("total", {"xs"}, TRUE, FALSE, FALSE, FALSE, FALSE) >>, { "for " })
\* def Total(xs): s = 0 \n for x in xs: s += x \n return s
SrcTotalTitle ==
    Module(TRUE, {}, TRUE,
           << FunctionDef("Total", {"xs"}, TRUE, FALSE, FALSE, FALSE, FALSE) >>, { "for " })
\* def add_product_id(existing_ids, new_id): return existing_ids + [new_id]
SrcAddProductId ==
    Module(TRUE, {}, FALSE,
           << FunctionDef("add_product_id", {"existing_ids", "new_id"},
                          FALSE, FALSE, FALSE, FALSE, TRUE) >>, {})
\* x = 1          (no function definition)
SrcNoFunction == Module(TRUE, {}, FALSE, << >>, {})
\* for i in range(3): pass          (a loop, no function definition)
SrcModuleLoop == Module(TRUE, {}, TRUE, << >>, { "for " })
\* def broken(:
SrcSyntaxError == Module(FALSE, {}, FALSE, << >>, {})

\* def Total(xs): i = 0 \n while(i < 1): i += 1 \n return i
\* (a While node; neither "for " nor "while " occurs in the text)
SrcWhileParen ==
    Module(TRUE, {}, TRUE,
           << FunctionDef("Total", {"xs"}, TRUE, FALSE, FALSE, FALSE, FALSE) >>, {})
\* def withdraw(balance, amount): \n # pay for it \n return balance - amount
\* (no loop node; "for " occurs in a comment)
SrcForComment ==
    Module(TRUE, {}, FALSE,
           << FunctionDef("withdraw", {"balance", "amount"}, FALSE, FALSE, TRUE, FALSE, FALSE) >>,
           { "return balance", "for " })

Sources ==
    { SrcWithdraw, SrcAsyncWorker, SrcGetItem, SrcTotal, SrcTotalTitle, SrcAddProductId,
      SrcNoFunction, SrcModuleLoop, SrcSyntaxError }

\* str.lower() and str.title() on the identifiers that occur in Sources
Lower(name) ==
    CASE name = "Total" -> "total"
      [] name = "Balance" -> "balance"
      [] OTHER -> name
Title(name) ==
    CASE name = "withdraw" -> "Withdraw"
      [] name = "get_item" -> "Get_Item"
      [] name = "total" -> "Total"
      [] name = "add_product_id" -> "Add_Product_Id"
      [] OTHER -> name

\* every function name of Sources, in the order Python sorts the strings
NameOrder == << "Total", "add_product_id", "get_item", "total", "withdraw" >>

\* ------------------------------------------------------------------------
\* obligation_policy.py
\* ------------------------------------------------------------------------
NUMERIC_HINT_NAMES == { "balance", "amount", "total", "count", "value" }
STATE_HINT_NAMES == { "state", "status", "level" }

Obligation(fn, kind, category, severity) ==
    [ id |-> << fn, kind >>, category |-> category, severity |-> severity, source |-> "policy" ]

\* the id suffixes in the order Python sorts them
KindOrder ==
    << "bounds_safe_access", "loop_progress_and_safety", "non_negative_result",
       "preserve_uniqueness", "valid_state_transition" >>

\* every id "<fn>:<kind>" over NameOrder, in sorted order
RECURSIVE IdsFrom(_)
IdsFrom(n) ==
    IF n > Len(NameOrder) THEN << >>
    ELSE [ k \in 1..Len(KindOrder) |-> << NameOrder[n], KindOrder[k] >> ] \o IdsFrom(n + 1)
IdOrder == IdsFrom(1)

\* _derive_function_obligations without the parameter-name hints
_derive_function_obligations_no_hints(fn) ==
    (IF fn.has_minus
     THEN { Obligation(fn.name, "non_negative_result", "non_negativity", "critical") }
     ELSE {})
    \cup (IF fn.has_subscript
          THEN { Obligation(fn.name, "bounds_safe_access", "bounds", "critical") }
          ELSE {})
    \cup (IF fn.has_list_append \/ fn.has_concat_append
          THEN { Obligation(fn.name, "preserve_uniqueness", "uniqueness", "high") }
          ELSE {})
    \cup (IF fn.has_loop
          THEN { Obligation(fn.name, "loop_progress_and_safety", "loop_invariant", "high") }
          ELSE {})

_derive_function_obligations(fn) ==
    LET param_set == { Lower(p) : p \in fn.params }
        has_state_hint == (param_set \cap STATE_HINT_NAMES) # {}
    IN  (IF fn.has_minus \/ (param_set \cap NUMERIC_HINT_NAMES) # {}
         THEN { Obligation(fn.name, "non_negative_result", "non_negativity", "critical") }
         ELSE {})
        \cup (IF fn.has_subscript
              THEN { Obligation(fn.name, "bounds_safe_access", "bounds", "critical") }
              ELSE {})
        \cup (IF fn.has_list_append \/ fn.has_concat_append
              THEN { Obligation(fn.name, "preserve_uniqueness", "uniqueness", "high") }
              ELSE {})
        \cup (IF fn.has_loop
              THEN { Obligation(fn.name, "loop_progress_and_safety", "loop_invariant", "high") }
              ELSE {})
        \cup (IF has_state_hint
              THEN { Obligation(fn.name, "valid_state_transition", "state_transition", "high") }
              ELSE {})

ObligationPolicyResult(obligations, unsupported) ==
    [ obligations |-> obligations, unsupported_constructs |-> unsupported ]

\* the orders in which iterating a Python set of strings can yield its elements (the
\* order depends on the hash seed of the process)
SetOrders(S) == { order \in [ 1..Cardinality(S) -> S ] : SeqToSet(order) = S }

\* list(unsupported): the markers in the order the set yields them
unsorted_constructs(order) == order

\* sorted(unsupported), given the order in which the set yields the markers
sorted_constructs(order) ==
    LET Yielded(c) == c \in SeqToSet(order)
    IN  SelectSeq(ConstructOrder, Yielded)

\* derive, given the order in which the set `unsupported` yields its elements
derive_in_order(python_code, order) ==
    IF ~python_code.parses
    THEN ObligationPolicyResult(<< >>, << "syntax_error" >>)
    ELSE LET all == UNION { _derive_function_obligations(python_code.body[i]) :
                            i \in 1..Len(python_code.body) }
             keys == SelectSeq(IdOrder, LAMBDA id : \E o \in all : o.id = id)
         IN  ObligationPolicyResult(
                 [ i \in 1..Len(keys) |-> CHOOSE o \in all : o.id = keys[i] ],
                 sorted_constructs(order))

\* derive without the syntax_error marker for an unparseable source
derive_no_syntax_marker(python_code) ==
    IF ~python_code.parses
    THEN ObligationPolicyResult(<< >>, << >>)
    ELSE LET all == UNION { _derive_function_obligations(python_code.body[i]) :
                            i \in 1..Len(python_code.body) }
             keys == SelectSeq(IdOrder, LAMBDA id : \E o \in all : o.id = id)
             InNodes(c) == c \in python_code.nodes
         IN  ObligationPolicyResult(
                 [ i \in 1..Len(keys) |-> CHOOSE o \in all : o.id = keys[i] ],
                 SelectSeq(ConstructOrder, InNodes))

derive(python_code) ==
    LET InNodes(c) == c \in python_code.nodes
    IN  derive_in_order(python_code, SelectSeq(ConstructOrder, InNodes))

\* ObligationPolicyResult.canonical_hash: the digest of the obligations sorted by id and
\* serialised with sorted keys.  The digest is taken to be collision-free, so the hash is
\* represented by the serialised payload.
canonical_hash(result) ==
    LET Present(id) == \E i \in 1..Len(result.obligations) : result.obligations[i].id = id
        keys == SelectSeq(IdOrder, Present)
    IN  [ i \in 1..Len(keys) |->
            CHOOSE o \in SeqToSet(result.obligations) : o.id = keys[i] ]

\* ------------------------------------------------------------------------
\* invariant_discovery.py, assumption_evidence.py
\* ------------------------------------------------------------------------
ALLOWED_SOURCE_TYPES == { "api_schema", "db_constraint", "validator", "policy", "runtime_guard" }

AssumedInput(property, source_type, justification, source_ref, evidence_id) ==
    [ property |-> property, source_type |-> source_type, justification |-> justification,
      source_ref |-> source_ref, evidence_id |-> evidence_id ]

\* The replies of the LLM proposer, after _parse_assumptions coerced them.  A blank
\* string stands for any text that strip() empties.
AssumeGood == AssumedInput("p", "policy", "why", "ref", "ev-1")
AssumeNoEvidence == AssumedInput("q", "validator", "why", "ref", "")
AssumeBadType == AssumedInput("r", "guess", "why", "ref", "ev-2")
AssumeNoProperty == AssumedInput("", "policy", "why", "ref", "ev-3")
AssumeNodup == AssumedInput("ids.Nodup", "validator", "why", "ref", "ev-4")
AssumeSorry == AssumedInput("caller is sorry", "policy", "why", "ref", "ev-5")
ParsedReplies ==
    { << >>, << AssumeGood >>, << AssumeGood, AssumeGood >>,
      << AssumeNoEvidence, AssumeNoProperty, AssumeBadType >>,
      << AssumeNodup >>, << AssumeSorry >> }

\* `token in property`, for the property texts above
PropertyMentions(property, token) ==
    CASE token = "Nodup" -> property = "ids.Nodup"
      [] token = "sorry" -> property = "caller is sorry"
      [] OTHER -> FALSE

RECURSIVE validate_from(_, _, _)
validate_from(assumptions, i, seen) ==
    IF i > Len(assumptions) THEN << >>
    ELSE LET a == assumptions[i]
         IN  IF a.property = ""
             THEN << "Missing property" >> \o validate_from(assumptions, i + 1, seen)
             ELSE (IF a.property \in seen THEN << "Duplicate assumption property" >> ELSE << >>)
                  \o (IF a.source_type \notin ALLOWED_SOURCE_TYPES
                      THEN << "Unsupported source_type" >> ELSE << >>)
                  \o (IF a.justification = "" THEN << "Missing justification" >> ELSE << >>)
                  \o (IF a.source_ref = "" THEN << "Missing source_ref" >> ELSE << >>)
                  \o (IF a.evidence_id = "" THEN << "Missing evidence_id" >> ELSE << >>)
                  \o validate_from(assumptions, i + 1, seen \cup { a.property })

validate_assumptions(assumptions) ==
    LET issues == validate_from(assumptions, 1, {})
    IN  [ ok |-> Len(issues) = 0, issues |-> issues ]

\* ------------------------------------------------------------------------
\* verifier/router.py
\* ------------------------------------------------------------------------
select_engine(python_code) ==
    IF ~python_code.parses THEN [ engine |-> "lean", reason |-> "syntax_error_fallback" ]
    ELSE IF python_code.has_loops THEN [ engine |-> "dafny", reason |-> "loop_detected" ]
    ELSE [ engine |-> "lean", reason |-> "non_loop_code" ]

\* ------------------------------------------------------------------------
\* translator/*.py
\* ------------------------------------------------------------------------
\* A proof artifact, as the facts semantic_guard.py and the verifier drivers test:
\*   symbols            the names n for which "(def|theorem|lemma|method) n" occurs as words
\*   sorry_word         the word `sorry` occurs outside `--` comments
\*   sorry_text         the substring "sorry" occurs
\*   unsupported_marker "unsupported" occurs, case-insensitively
\*   nodup              "Nodup" or "no_duplicates" occurs
\*   bounds_tok         "<", the at-most sign or "index" occurs
\*   nonneg_tok         ">= 0" or the at-least sign followed by " 0" occurs
Artifact(symbols, sorry_word, sorry_text, marker, nodup, bounds_tok, nonneg_tok) ==
    [ symbols |-> symbols, sorry_word |-> sorry_word, sorry_text |-> sorry_text,
      unsupported_marker |-> marker, nodup |-> nodup, bounds_tok |-> bounds_tok,
      nonneg_tok |-> nonneg_tok ]

NoArtifact == Artifact({}, FALSE, FALSE, FALSE, FALSE, FALSE, FALSE)

TranslationOutcome(success, language, code, translator, used_llm, error) ==
    [ success |-> success, language |-> language, code |-> code, translator |-> translator,
      used_llm |-> used_llm, error |-> error ]

HasCategory(obligations, category) ==
    \E i \in 1..Len(obligations) : obligations[i].category = category

\* a theorem block was emitted and one of its "-- ASSUMED INPUT n: <property>" lines
\* holds the token
CommentMentions(obligations, assumptions, token) ==
    /\ Len(obligations) > 0
    /\ \E i \in 1..Len(assumptions) : PropertyMentions(assumptions[i].property, token)

\* ASTTranslator.translate.  The emitted text is the fixed imports, "def <name> ..." per
\* function and, per obligation, a theorem with "-- OBLIGATION: <property>" and
\* "-- CATEGORY: <category>" comment lines followed by one "-- ASSUMED INPUT n: <property>"
\* line per assumption: the non_negativity property text holds ">= 0", the bounds
\* property text holds "index", and an assumed property brings the tokens of its text.
ast_translate(python_code, obligations, assumptions) ==
    IF ~python_code.parses
    THEN TranslationOutcome(FALSE, "lean", NoArtifact, "ast", FALSE, "SyntaxError")
    ELSE IF python_code.has_loops \/ "async_function" \in python_code.nodes
    THEN TranslationOutcome(FALSE, "lean", NoArtifact, "ast", FALSE,
                            "Unsupported construct for ASTTranslator (loop/async)")
    ELSE IF Len(python_code.body) = 0
    THEN TranslationOutcome(FALSE, "lean", NoArtifact, "ast", FALSE,
                            "No function definitions found")
    ELSE TranslationOutcome(TRUE, "lean",
             Artifact({ python_code.body[i].name : i \in 1..Len(python_code.body) },
                      FALSE,
                      CommentMentions(obligations, assumptions, "sorry"),
                      FALSE,
                      CommentMentions(obligations, assumptions, "Nodup"),
                      HasCategory(obligations, "bounds"),
                      HasCategory(obligations, "non_negativity")),
             "ast", FALSE, "")

\* DafnyTranslator.translate.  The emitted text is "method <name.title()>(...)" per
\* function with one "// OBLIGATION: <property>" line per obligation and, for a function
\* with a loop, the skeleton "while (i < 1) invariant 0 <= i <= 1 ...".
dafny_translate(python_code, obligations, assumptions) ==
    IF ~python_code.parses
    THEN TranslationOutcome(FALSE, "dafny", NoArtifact, "dafny", FALSE, "SyntaxError")
    ELSE IF Len(python_code.body) = 0
    THEN TranslationOutcome(FALSE, "dafny", NoArtifact, "dafny", FALSE,
                            "No function definitions found")
    ELSE TranslationOutcome(TRUE, "dafny",
             Artifact({ Title(python_code.body[i].name) : i \in 1..Len(python_code.body) },
                      FALSE, FALSE, FALSE, FALSE,
                      HasCategory(obligations, "bounds")
                          \/ \E i \in 1..Len(python_code.body) : python_code.body[i].has_loop,
                      HasCategory(obligations, "non_negativity")),
             "dafny", FALSE, "")

\* What the external model answers to one generate_content call.
LLMTexts ==
    { Artifact({}, FALSE, FALSE, FALSE, FALSE, FALSE, FALSE),
      Artifact({}, TRUE, TRUE, FALSE, FALSE, TRUE, TRUE),
      Artifact({}, FALSE, FALSE, TRUE, TRUE, TRUE, TRUE) }
LLMReplies ==
    { [ kind |-> "exception", text |-> NoArtifact ], [ kind |-> "empty", text |-> NoArtifact ] }
    \cup { [ kind |-> "text", text |-> t ] : t \in LLMTexts }

\* LLMTranslator.translate; reply is what generate_content does when it is called
llm_translate(python_code, obligations, assumptions, api_key, reply) ==
    IF ~api_key
    THEN TranslationOutcome(FALSE, "lean", NoArtifact, "llm", TRUE,
                            "GEMINI_API_KEY is not configured")
    ELSE IF reply.kind = "exception"
    THEN TranslationOutcome(FALSE, "lean", NoArtifact, "llm", TRUE, "exception")
    ELSE IF reply.kind = "empty"
    THEN TranslationOutcome(FALSE, "lean", NoArtifact, "llm", TRUE,
                            "Gemini returned an empty translation")
    ELSE TranslationOutcome(TRUE, "lean", reply.text, "llm", TRUE, "")

\* the LLM translator is asked before the AST translator
_translate_llm_first(python_code, obligations, assumptions, api_key, reply) ==
    LET selection == select_engine(python_code)
        llm_outcome == llm_translate(python_code, obligations, assumptions, api_key, reply)
    IN  IF selection.engine = "dafny"
        THEN dafny_translate(python_code, obligations, assumptions)
        ELSE IF llm_outcome.success
        THEN llm_outcome
        ELSE ast_translate(python_code, obligations, assumptions)

\* ArgusPipeline._translate
_translate(python_code, obligations, assumptions, api_key, reply) ==
    LET selection == select_engine(python_code)
        ast_outcome == ast_translate(python_code, obligations, assumptions)
    IN  IF selection.engine = "dafny"
        THEN dafny_translate(python_code, obligations, assumptions)
        ELSE IF ast_outcome.success
        THEN ast_outcome
        ELSE llm_translate(python_code, obligations, assumptions, api_key, reply)

\* ------------------------------------------------------------------------
\* semantic_guard.py
\* ------------------------------------------------------------------------
_extract_python_function_names(code) ==
    IF ~code.parses THEN {} ELSE { code.body[i].name : i \in 1..Len(code.body) }

_contains_function_symbol(translated_code, fn) == fn \in translated_code.symbols

_contains_sorry(code) == code.sorry_word

RECURSIVE encoding_issues(_, _, _)
encoding_issues(translated_code, obligations, i) ==
    IF i > Len(obligations) THEN << >>
    ELSE LET c == obligations[i].category
         IN  (IF c = "uniqueness" /\ ~translated_code.nodup
              THEN << "WEAK_UNIQUENESS_ENCODING" >> ELSE << >>)
             \o (IF c = "bounds" /\ ~translated_code.bounds_tok
                 THEN << "WEAK_BOUNDS_ENCODING" >> ELSE << >>)
             \o (IF c = "non_negativity" /\ ~translated_code.nonneg_tok
                 THEN << "WEAK_NONNEG_ENCODING" >> ELSE << >>)
             \o encoding_issues(translated_code, obligations, i + 1)

run_semantic_guard(python_code, translated_code, obligations) ==
    LET names == _extract_python_function_names(python_code)
        Missing(n) == n \in names /\ ~_contains_function_symbol(translated_code, n)
        missing == SelectSeq(NameOrder, Missing)
        issues ==
            (IF Len(obligations) = 0 THEN << "NO_OBLIGATIONS" >> ELSE << >>)
            \o (IF _contains_sorry(translated_code) THEN << "PROOF_SORRY" >> ELSE << >>)
            \o (IF translated_code.unsupported_marker THEN << "UNSUPPORTED_MARKER" >> ELSE << >>)
            \o [ i \in 1..Len(missing) |-> "MISSING_FUNCTION_SYMBOL" ]
            \o encoding_issues(translated_code, obligations, 1)
    IN  [ passed |-> Len(issues) = 0, issues |-> issues ]

\* ------------------------------------------------------------------------
\* verifier/lean_verifier.py, verifier/dafny_verifier.py
\* ------------------------------------------------------------------------
\* What subprocess.run does when the driver calls it: the engine process exits (with a
\* return code, its output holding a positive error count or not), the timeout expires,
\* or the process cannot be spawned.
EngineRuns ==
    { [ kind |-> "exit", returncode |-> rc, error_count |-> e ] :
          rc \in { 0, 1 }, e \in BOOLEAN }
    \cup { [ kind |-> "timeout", returncode |-> 1, error_count |-> FALSE ],
           [ kind |-> "spawn_failure", returncode |-> 1, error_count |-> FALSE ] }

ObligationResult(obligation, verified, engine) ==
    [ obligation |-> obligation, verified |-> verified, engine |-> engine ]

VerificationOutcome(engine, results, verr, message) ==
    [ engine |-> engine, obligation_results |-> results, verification_error |-> verr,
      error_message |-> message ]

_all_failed(obligations, engine) ==
    [ i \in 1..Len(obligations) |-> ObligationResult(obligations[i], FALSE, engine) ]

docker_refused(require_docker, environ) ==
    require_docker /\ ~environ.dockerenv /\ ~environ.ARGUS_ALLOW_LOCAL_VERIFY

\* lean_verify that reports a timeout or spawn failure as an ordinary failed proof
lean_verify_error_as_failure(proof_code, obligations, require_docker, environ, run) ==
    IF docker_refused(require_docker, environ)
    THEN VerificationOutcome("lean", _all_failed(obligations, "lean"), TRUE,
                             "Docker-only verification is enabled")
    ELSE LET verified == run.kind = "exit" /\ run.returncode = 0 /\ ~proof_code.sorry_text
         IN  VerificationOutcome("lean",
                 [ i \in 1..Len(obligations) |-> ObligationResult(obligations[i], verified, "lean") ],
                 FALSE, IF verified THEN "" ELSE "output")

lean_verify(proof_code, obligations, require_docker, environ, run) ==
    IF docker_refused(require_docker, environ)
    THEN VerificationOutcome("lean", _all_failed(obligations, "lean"), TRUE,
                             "Docker-only verification is enabled")
    ELSE IF run.kind # "exit"
    THEN VerificationOutcome("lean", _all_failed(obligations, "lean"), TRUE, run.kind)
    ELSE LET verified == run.returncode = 0 /\ ~proof_code.sorry_text
         IN  VerificationOutcome("lean",
                 [ i \in 1..Len(obligations) |-> ObligationResult(obligations[i], verified, "lean") ],
                 FALSE, IF verified THEN "" ELSE "output")

dafny_verify(proof_code, obligations, require_docker, environ, run) ==
    IF docker_refused(require_docker, environ)
    THEN VerificationOutcome("dafny", _all_failed(obligations, "dafny"), TRUE,
                             "Docker-only verification is enabled")
    ELSE IF run.kind # "exit"
    THEN VerificationOutcome("dafny", _all_failed(obligations, "dafny"), TRUE, run.kind)
    ELSE LET verified == run.returncode = 0 /\ ~run.error_count
         IN  VerificationOutcome("dafny",
                 [ i \in 1..Len(obligations) |-> ObligationResult(obligations[i], verified, "dafny") ],
                 FALSE, IF verified THEN "" ELSE "output")

\* ------------------------------------------------------------------------
\* repair.py
\* ------------------------------------------------------------------------
DefaultMaxRepairAttempts == 3

\* what generate_content answers to one repair prompt: a replacement source, nothing,
\* or an exception
RepairReplies ==
    { [ kind |-> "exception", code |-> SrcSyntaxError ], [ kind |-> "empty", code |-> SrcSyntaxError ] }
    \cup { [ kind |-> "text", code |-> c ] : c \in Sources }

\* RepairEngine._generate_fix: (fixed, err)
_generate_fix(api_key, reply) ==
    IF ~api_key THEN [ fixed |-> None, err |-> "GEMINI_API_KEY is not configured" ]
    ELSE IF reply.kind = "exception" THEN [ fixed |-> None, err |-> "exception" ]
    ELSE IF reply.kind = "empty" THEN [ fixed |-> None, err |-> "Gemini returned empty fix" ]
    ELSE [ fixed |-> Some(reply.code), err |-> "" ]

RepairAttempt(attempt, fixed, ok, err) ==
    [ attempt |-> attempt, fixed_code |-> fixed, success |-> ok, error |-> err ]

\* the RepairResult, as far as the pipeline reads it, and the number of attempts in it
RepairResult(cycles, fixed, success) ==
    [ cycles |-> cycles, fixed_code |-> fixed, success |-> success ]

\* ------------------------------------------------------------------------
\* pipeline.py: state
\* ------------------------------------------------------------------------
VARIABLES
    config,        \* PipelineConfig of the pipeline instance
    environ,       \* process environment: credential, /.dockerenv, local-verify override
    pc,            \* "idle", "running" (inside run_file / run_many), "returned", "raised",
                   \* "exited" (main returned)
    mode,          \* "none", "single" (run_file) or "batch" (run_many)
    last_run_id,   \* ArgusPipeline.last_run_id
    files,         \* the (filename, code) list of the current call
    results,       \* PipelineResults collected so far by the current call
    reports,       \* the FileReport list run_many returned
    stack,         \* activation records of _run_file, outermost first
    trace,         \* the trace store: path -> content of the file written there
    last_done,     \* the activation record of the most recently finished top-level file
    cli,           \* what main of the command line did: mode, gate report, exit code
    summary_in,    \* a free-standing VerificationSummary handed to compute_verdict
    decision_out,  \* what compute_verdict returned for summary_in
    source_in,     \* a source handed to ObligationPolicy.derive
    derivations,   \* what the successive derive calls on source_in returned, with the hash
    now,           \* the UTC clock, as datetime.now reads it (microseconds)
    calls,         \* the invocations of run_file / run_many that share the trace_root
    shared_trace,  \* trace_root: path -> the invocations that wrote a file there
    mutation_in,   \* a source and an evaluator handed to mutation_kill_rate_gate
    mutation_out,  \* what mutation_kill_rate_gate returned for mutation_in
    suite_in,      \* files, trace store, run id, benchmark handed to run_ci_integrity_suite
    suite_reports, \* the FileReport list of the latest call on suite_in
    suite_out,     \* the CIGateReport of the latest call on suite_in
    suite_prev,    \* the CIGateReport of the call before it, made with another report list
    repair_call,   \* a call of RepairEngine.repair: its engine, the attempts so far, the result
    driver_call,   \* a call of a verifier driver: its inputs, scratch file, process, outcome
    gate_call      \* one file taken through translation and guard, then through the gate

vars ==
    << config, environ, pc, mode, last_run_id, files, results, reports, stack, trace,
       last_done, cli, summary_in, decision_out, source_in, derivations, now, calls,
       shared_trace, mutation_in, mutation_out, suite_in, suite_reports, suite_out,
       suite_prev, repair_call, driver_call, gate_call >>

\* the variables of each component
pipeline_vars ==
    << config, environ, pc, mode, last_run_id, files, results, reports, stack, trace,
       last_done, cli >>
verdict_vars == << summary_in, decision_out >>
policy_vars == << source_in, derivations >>
\* the variables the pipeline and compute_verdict never touch
run_vars == << now, calls, shared_trace >>
mutation_vars == << mutation_in, mutation_out >>
suite_vars == << suite_in, suite_reports, suite_out, suite_prev >>
engine_vars == << repair_call, driver_call, gate_call >>
aux_vars == << policy_vars, run_vars, mutation_vars, suite_vars, engine_vars >>

\* file names are sequences of text pieces, so that f"{filename}_repaired" is Append
Filenames == { << "a.py" >>, << "b.py" >>, << "a.py", "_repaired" >> }
RepairedName(filename) == Append(filename, "_repaired")

\* the sources run_many is exercised with
BatchSources == { SrcWithdraw, SrcAsyncWorker, SrcNoFunction }

FileLists(n) ==
    UNION { { l \in [ 1..k -> [ filename : Filenames, code : BatchSources ] ] :
                \A i, j \in 1..k : i # j => l[i].filename # l[j].filename } : k \in 0..n }

\* the reading of the UTC clock when the model starts
FirstRunId == 1

\* _new_run_id: the timestamp of the call, formatted to the microsecond
_new_run_id(clock) == clock

TracePath(run_id, dir, name) == [ run |-> run_id, dir |-> dir, name |-> name ]
Content(kind, unsupported, verdict, repaired) ==
    [ kind |-> kind, unsupported |-> unsupported, verdict |-> verdict, repaired |-> repaired ]
Text(kind) == Content(kind, FALSE, "", FALSE)

\* _write_text / _write_json
Write(store, path, content) ==
    [ q \in (DOMAIN store) \cup { path } |-> IF q = path THEN content ELSE store[q] ]

Exists(store, run_id, dir, name) == TracePath(run_id, dir, name) \in DOMAIN store

PipelineResult(filename, verdict, obligations, assumptions, engine, message, repaired_code) ==
    [ filename |-> filename, verdict |-> verdict, obligations |-> obligations,
      assumptions |-> assumptions, engine |-> engine, message |-> message,
      repaired_code |-> repaired_code ]

FileReport(result) ==
    [ filename |-> result.filename, verdict |-> result.verdict,
      obligations |-> result.obligations, assumptions |-> result.assumptions,
      engine |-> result.engine, message |-> result.message ]

\* the local variables of one activation of _run_file
Frame(filename, python_code, allow_repair, run_id) ==
    [ filename |-> filename, python_code |-> python_code, allow_repair |-> allow_repair,
      run_id |-> run_id,
      at |-> "discover",
      policy |-> ObligationPolicyResult(<< >>, << >>),
      assumed_inputs |-> << >>,
      assumptions_valid |-> TRUE,
      translation |-> None,
      guard |-> None,
      verification |-> None,
      engine_run |-> None,
      decision |-> None,
      base_code |-> None,       \* the artifact the same translator call yields when
                                \* discovery returned no assumed input
      base_verdict |-> None,    \* the verdict the same stage outputs give in that case
      attempts |-> << >>,
      repair_result |-> None,
      repaired_code |-> None,
      rerun |-> None,
      stages |-> << >>,
      result |-> None ]

Top == stack[Len(stack)]

\* finalize(): write result.json into the activation's trace_dir
finalize(store, frame, result) ==
    Write(store, TracePath(frame.run_id, frame.filename, "result.json"),
          Content("result", FALSE, result.verdict, IsSome(result.repaired_code)))

Finished(frame, result) == [ frame EXCEPT !.at = "done", !.result = Some(result) ]

\* ------------------------------------------------------------------------
\* pipeline.py: run_file, run_many
\* ------------------------------------------------------------------------
\* no call of the component has been made
verdict_idle == summary_in = None /\ decision_out = None
policy_idle == source_in = None /\ derivations = << >>
run_idle == now = FirstRunId /\ calls = << >> /\ shared_trace = << >>
mutation_idle == mutation_in = None /\ mutation_out = None
suite_idle ==
    suite_in = None /\ suite_reports = << >> /\ suite_out = None /\ suite_prev = None
engine_idle == repair_call = None /\ driver_call = None /\ gate_call = None

\* a pipeline instance nothing has been run on
pipeline_idle ==
    /\ config = [ allow_repair |-> TRUE, require_docker_verify |-> TRUE,
                  max_repair_attempts |-> DefaultMaxRepairAttempts ]
    /\ environ = [ GEMINI_API_KEY |-> FALSE, dockerenv |-> FALSE,
                   ARGUS_ALLOW_LOCAL_VERIFY |-> FALSE ]
    /\ pc = "idle"
    /\ mode = "none"
    /\ last_run_id = None
    /\ files = << >>
    /\ results = << >>
    /\ reports = << >>
    /\ stack = << >>
    /\ trace = << >>
    /\ last_done = None
    /\ cli = None

Init ==
    /\ config \in [ allow_repair : BOOLEAN, require_docker_verify : BOOLEAN,
                    max_repair_attempts : { DefaultMaxRepairAttempts } ]
    /\ environ \in [ GEMINI_API_KEY : BOOLEAN, dockerenv : BOOLEAN,
                     ARGUS_ALLOW_LOCAL_VERIFY : BOOLEAN ]
    \* /.dockerenv and the override are read only by a driver that requires docker, and
    \* the override only outside a container: settings that differ in a flag nobody
    \* reads are taken once
    /\ ~config.require_docker_verify => ~environ.dockerenv
    /\ (~config.require_docker_verify \/ environ.dockerenv) => ~environ.ARGUS_ALLOW_LOCAL_VERIFY
    /\ pc = "idle"
    /\ mode = "none"
    /\ last_run_id = None
    /\ files = << >>
    /\ results = << >>
    /\ reports = << >>
    /\ stack = << >>
    /\ trace = << >>
    /\ last_done = None
    /\ cli = None
    /\ verdict_idle
    /\ policy_idle
    /\ run_idle
    /\ mutation_idle
    /\ suite_idle
    /\ engine_idle

\* the loop takes the files from the end of the list
next_file_from_end(file_list, collected) == file_list[Len(file_list) - Len(collected)]

\* line 231: the file the loop of run_many takes after `collected` results
next_file(file_list, collected) == file_list[Len(collected) + 1]

\* run_file up to the call of _run_file
RunFile ==
    /\ pc = "idle"
    /\ \E filename \in Filenames, code \in Sources :
         /\ files' = << [ filename |-> filename, code |-> code ] >>
         /\ stack' = << Frame(filename, code, config.allow_repair, _new_run_id(now)) >>
    /\ pc' = "running"
    /\ mode' = "single"
    /\ last_run_id' = Some(_new_run_id(now))
    /\ trace' = Write(trace, TracePath(_new_run_id(now), << >>, "manifest.json"), Text("single"))
    /\ results' = << >>
    /\ UNCHANGED << config, environ, reports, last_done, summary_in, decision_out, aux_vars, cli >>

\* run_many up to the first call of _run_file; with no file it runs to its return
RunMany ==
    /\ pc = "idle"
    /\ \E list \in FileLists(MaxFiles) :
         LET manifest == Write(trace, TracePath(_new_run_id(now), << >>, "manifest.json"), Text("batch"))
         IN  /\ files' = list
             /\ IF Len(list) = 0
                THEN /\ stack' = << >>
                     /\ pc' = "returned"
                     /\ trace' = Write(manifest, TracePath(_new_run_id(now), << >>, "summary.json"),
                                       Text("summary"))
                ELSE /\ stack' = << Frame(next_file(list, << >>).filename,
                                          next_file(list, << >>).code,
                                          config.allow_repair, _new_run_id(now)) >>
                     /\ pc' = "running"
                     /\ trace' = manifest
    /\ mode' = "batch"
    /\ last_run_id' = Some(_new_run_id(now))
    /\ results' = << >>
    /\ reports' = << >>
    /\ UNCHANGED << config, environ, last_done, summary_in, decision_out, aux_vars, cli >>

\* The outermost activation returned `frame.result`: run_file writes the summary and
\* returns; run_many appends the result and goes on with the next file, or writes the
\* summary and returns the reports.
Deliver(frame, store) ==
    LET all == Append(results, Get(frame.result))
        run_id == frame.run_id
    IN  /\ results' = all
        /\ last_done' = Some(frame)
        /\ IF mode = "batch" /\ Len(all) < Len(files)
           THEN /\ stack' = << Frame(next_file(files, all).filename,
                                     next_file(files, all).code,
                                     config.allow_repair, run_id) >>
                /\ trace' = store
                /\ pc' = "running"
                /\ reports' = reports
           ELSE /\ stack' = << >>
                /\ trace' = Write(store, TracePath(run_id, << >>, "summary.json"), Text("summary"))
                /\ pc' = "returned"
                /\ reports' = IF mode = "batch"
                              THEN [ i \in 1..Len(all) |-> FileReport(all[i]) ]
                              ELSE reports
        /\ UNCHANGED << config, environ, mode, last_run_id, files, summary_in, decision_out, aux_vars, cli >>

\* the re-run is accepted whatever its verdict
rerun_accepted_any(verdict) == verdict \in Verdict

\* the re-run is accepted when it ends UNVERIFIED as well
rerun_accepted_unverified(verdict) == verdict \in { VERIFIED, FIXED, UNVERIFIED }

\* line 200: does the verdict of the re-run make the repair a fix
rerun_accepted(verdict) == verdict \in { VERIFIED, FIXED }

\* The activation on top of the stack returned `result` through finalize().  When it is
\* the re-run of a repaired source, the calling activation resumes after the recursive
\* call (pipeline.py lines 200-223) and returns as well.
ReturnFrom(frame, result, store) ==
    LET done == Finished(frame, result)
        written == finalize(store, frame, result)
    IN  IF Len(stack) = 1
        THEN Deliver(done, written)
        ELSE LET outer == stack[1]
                 accepted == rerun_accepted(result.verdict)
                 outer_result ==
                     IF accepted
                     THEN PipelineResult(outer.filename, FIXED, outer.policy.obligations,
                                         outer.assumed_inputs, result.engine,
                                         "Repaired and verified", outer.repaired_code)
                     ELSE PipelineResult(outer.filename, Get(outer.decision).verdict,
                                         outer.policy.obligations, outer.assumed_inputs,
                                         select_engine(outer.python_code).engine,
                                         Get(outer.decision).reason, outer.repaired_code)
                 outer_done == Finished([ outer EXCEPT !.rerun = Some(done) ], outer_result)
             IN  Deliver(outer_done, finalize(written, outer, outer_result))

\* the activation on top of the stack goes on to its next stage
Proceed(frame, store) ==
    /\ stack' = [ stack EXCEPT ![Len(stack)] = frame ]
    /\ trace' = store
    /\ UNCHANGED << config, environ, pc, mode, last_run_id, files, results, reports,
                    last_done, summary_in, decision_out, aux_vars, cli >>

\* an exception leaves _run_file and then run_file / run_many
Raise(store) ==
    /\ pc' = "raised"
    /\ stack' = << >>
    /\ trace' = store
    /\ UNCHANGED << config, environ, mode, last_run_id, files, results, reports, last_done,
                    summary_in, decision_out, aux_vars, cli >>

\* ------------------------------------------------------------------------
\* pipeline.py: the stages of _run_file
\* ------------------------------------------------------------------------
\* What the proposer call of InvariantDiscovery._query_llm does: the client raises, the
\* reply is JSON that is not an object (payload.get then raises), or the reply is parsed
\* into a list of assumed inputs.
DiscoveryReplies ==
    { [ kind |-> "exception", assumed |-> << >> ], [ kind |-> "not_object", assumed |-> << >> ] }
    \cup { [ kind |-> "payload", assumed |-> r ] : r \in ParsedReplies }

\* run_many is exercised with fewer answers of the outside world per call
BatchDiscoveryReplies ==
    { [ kind |-> "exception", assumed |-> << >> ], [ kind |-> "payload", assumed |-> << >> ],
      [ kind |-> "payload", assumed |-> << AssumeGood, AssumeGood >> ] }
BatchLLMReplies ==
    { [ kind |-> "empty", text |-> NoArtifact ], [ kind |-> "text", text |-> NoArtifact ] }
BatchEngineRuns ==
    { [ kind |-> "exit", returncode |-> 0, error_count |-> FALSE ],
      [ kind |-> "exit", returncode |-> 1, error_count |-> FALSE ],
      [ kind |-> "timeout", returncode |-> 1, error_count |-> FALSE ] }
BatchRepairReplies ==
    { [ kind |-> "empty", code |-> SrcSyntaxError ], [ kind |-> "text", code |-> SrcWithdraw ],
      [ kind |-> "text", code |-> SrcAsyncWorker ] }

DiscoveryRepliesIn(m) == IF m = "batch" THEN BatchDiscoveryReplies ELSE DiscoveryReplies
LLMRepliesIn(m) == IF m = "batch" THEN BatchLLMReplies ELSE LLMReplies
EngineRunsIn(m) == IF m = "batch" THEN BatchEngineRuns ELSE EngineRuns
RepairRepliesIn(m) == IF m = "batch" THEN BatchRepairReplies ELSE RepairReplies

\* InvariantDiscovery.discover
discover(python_code, api_key, reply) ==
    IF ~api_key THEN [ raised |-> FALSE, assumed_inputs |-> << >> ]
    ELSE IF reply.kind \in { "exception", "not_object" }
    THEN [ raised |-> TRUE, assumed_inputs |-> << >> ]
    ELSE [ raised |-> FALSE, assumed_inputs |-> reply.assumed ]

\* lines 97-130: policy, discovery, evidence validation, 01_discovery.json and the
\* early return on unsupported constructs
Discover ==
    /\ pc = "running"
    /\ Top.at = "discover"
    /\ \E reply \in DiscoveryRepliesIn(mode) :
         LET policy == derive(Top.python_code)
             found == discover(Top.python_code, environ.GEMINI_API_KEY, reply)
             valid == validate_assumptions(found.assumed_inputs)
             unsupported == Len(policy.unsupported_constructs) > 0
             store == Write(trace, TracePath(Top.run_id, Top.filename, "01_discovery.json"),
                            Content("discovery", unsupported, "", FALSE))
             frame == [ Top EXCEPT !.policy = policy,
                                   !.assumed_inputs = found.assumed_inputs,
                                   !.assumptions_valid = valid.ok,
                                   !.stages = Append(@, "discovery") ]
             summary == VerificationSummary(<< >>, valid.ok, policy.unsupported_constructs,
                                            FALSE, FALSE, FALSE)
             decision == compute_verdict(summary)
             base == compute_verdict([ summary EXCEPT
                         !.assumptions_valid = validate_assumptions(<< >>).ok ])
         IN  IF found.raised
             THEN Raise(trace)
             ELSE IF unsupported
             THEN ReturnFrom([ frame EXCEPT !.decision = Some(decision),
                                            !.base_verdict = Some(base.verdict),
                                            !.stages = Append(@, "verdict") ],
                             PipelineResult(Top.filename, decision.verdict, policy.obligations,
                                            found.assumed_inputs, "n/a", decision.reason, None),
                             store)
             ELSE Proceed([ frame EXCEPT !.at = "translate" ], store)

\* lines 132-155: translation, 02_translation.* and the return on a failed translation
Translate ==
    /\ pc = "running"
    /\ Top.at = "translate"
    /\ \E reply \in LLMRepliesIn(mode) :
         LET translation == _translate(Top.python_code, Top.policy.obligations,
                                       Top.assumed_inputs, environ.GEMINI_API_KEY, reply)
             name == IF translation.language = "lean"
                     THEN "02_translation.lean" ELSE "02_translation.dfy"
             store == Write(trace, TracePath(Top.run_id, Top.filename, name),
                            Text(IF translation.success THEN "code" ELSE "error"))
             base_translation == _translate(Top.python_code, Top.policy.obligations, << >>,
                                            environ.GEMINI_API_KEY, reply)
             frame == [ Top EXCEPT !.translation = Some(translation),
                                   !.base_code = Some(base_translation.code),
                                   !.stages = Append(@, "translation") ]
             summary == VerificationSummary(<< >>, Top.assumptions_valid, << >>,
                                            FALSE, TRUE, FALSE)
             decision == compute_verdict(summary)
             base == compute_verdict([ summary EXCEPT
                         !.assumptions_valid = validate_assumptions(<< >>).ok ])
         IN  IF ~translation.success
             THEN ReturnFrom([ frame EXCEPT !.decision = Some(decision),
                                            !.base_verdict = Some(base.verdict),
                                            !.stages = Append(@, "verdict") ],
                             PipelineResult(Top.filename, decision.verdict,
                                            Top.policy.obligations, Top.assumed_inputs,
                                            translation.language, translation.error, None),
                             store)
             ELSE Proceed([ frame EXCEPT !.at = "guard" ], store)

\* lines 157-164: semantic guard and 02_semantic_guard.json
Guard ==
    /\ pc = "running"
    /\ Top.at = "guard"
    /\ LET guard == run_semantic_guard(Top.python_code, Get(Top.translation).code,
                                       Top.policy.obligations)
       IN  Proceed([ Top EXCEPT !.guard = Some(guard), !.at = "verify",
                                !.stages = Append(@, "semantic_guard") ],
                   Write(trace, TracePath(Top.run_id, Top.filename, "02_semantic_guard.json"),
                         Content("guard", FALSE, "", FALSE)))

\* the theorem driver is called whatever engine was selected
run_driver_lean_only(engine, proof_code, obligations, require_docker, env, run) ==
    lean_verify(proof_code, obligations, require_docker, env, run)

\* lines 166-170: the driver of the selected engine is called
run_driver(engine, proof_code, obligations, require_docker, env, run) ==
    IF engine = "lean"
    THEN lean_verify(proof_code, obligations, require_docker, env, run)
    ELSE dafny_verify(proof_code, obligations, require_docker, env, run)

\* the repair engine is called whether or not the activation allows repair
repair_enabled_in_any_activation(verdict, allow_repair, verification_error) ==
    verdict = VULNERABLE /\ ~verification_error

\* line 184: is the repair engine called after the first verdict
repair_enabled(verdict, allow_repair, verification_error) ==
    verdict = VULNERABLE /\ allow_repair /\ ~verification_error

\* lines 165-184 and 213-223: engine selection, the verifier driver, 03_verify_stdout.txt,
\* the verdict, and the return unless repair is to be attempted
Verify ==
    /\ pc = "running"
    /\ Top.at = "verify"
    /\ \E run \in EngineRunsIn(mode) :
         LET engine_selection == select_engine(Top.python_code)
             verification ==
                 run_driver(engine_selection.engine, Get(Top.translation).code,
                            Top.policy.obligations, config.require_docker_verify, environ, run)
             store == Write(trace, TracePath(Top.run_id, Top.filename, "03_verify_stdout.txt"),
                            Text("stdout"))
             summary == VerificationSummary(verification.obligation_results,
                                            Top.assumptions_valid, << >>,
                                            Get(Top.guard).passed,
                                            verification.verification_error, FALSE)
             decision == compute_verdict(summary)
             base_verification ==
                 run_driver(engine_selection.engine, Get(Top.base_code),
                            Top.policy.obligations, config.require_docker_verify, environ, run)
             base == compute_verdict(VerificationSummary(
                         base_verification.obligation_results,
                         validate_assumptions(<< >>).ok, << >>,
                         run_semantic_guard(Top.python_code, Get(Top.base_code),
                                            Top.policy.obligations).passed,
                         base_verification.verification_error, FALSE))
             frame == [ Top EXCEPT !.verification = Some(verification),
                                   !.engine_run = Some(run.kind),
                                   !.decision = Some(decision),
                                   !.base_verdict = Some(base.verdict),
                                   !.stages = Append(Append(@, "verification"), "verdict") ]
         IN  IF repair_enabled(decision.verdict, Top.allow_repair,
                               verification.verification_error)
             THEN Proceed([ frame EXCEPT !.at = "repair" ], store)
             ELSE ReturnFrom(frame,
                             PipelineResult(Top.filename, decision.verdict,
                                            Top.policy.obligations, Top.assumed_inputs,
                                            engine_selection.engine, decision.reason, None),
                             store)

\* lines 185-199 with RepairEngine.repair: one cycle of the repair loop.  A cycle with a
\* usable reply ends the loop: 04_repair_0.py is written and _run_file is called again on
\* the replacement source.  The last cycle without one ends it with success = false.
RepairCycle ==
    /\ pc = "running"
    /\ Top.at = "repair"
    /\ \E reply \in RepairRepliesIn(mode) :
         LET attempt == Len(Top.attempts) + 1
             gen == _generate_fix(environ.GEMINI_API_KEY, reply)
             ok == IsSome(gen.fixed) /\ gen.err = ""
             frame == [ Top EXCEPT !.attempts = Append(@, RepairAttempt(attempt, gen.fixed, ok, gen.err)),
                                   !.stages = IF attempt = 1 THEN Append(@, "repair") ELSE @ ]
             ended(result) == [ frame EXCEPT !.attempts = << >>, !.repair_result = Some(result) ]
         IN  IF ok
             THEN /\ stack' = << [ ended(RepairResult(attempt, gen.fixed, TRUE))
                                     EXCEPT !.repaired_code = gen.fixed, !.at = "rerun" ],
                                 Frame(RepairedName(Top.filename), Get(gen.fixed), FALSE,
                                       Top.run_id) >>
                  /\ trace' = Write(trace, TracePath(Top.run_id, Top.filename, "04_repair_0.py"),
                                    Text("code"))
                  /\ UNCHANGED << config, environ, pc, mode, last_run_id, files, results,
                                  reports, last_done, summary_in, decision_out, aux_vars, cli >>
             ELSE IF attempt >= config.max_repair_attempts
             THEN ReturnFrom(ended(RepairResult(attempt, None, FALSE)),
                             PipelineResult(Top.filename, Get(Top.decision).verdict,
                                            Top.policy.obligations, Top.assumed_inputs,
                                            select_engine(Top.python_code).engine,
                                            Get(Top.decision).reason, None),
                             trace)
             ELSE Proceed(frame, trace)

\* ------------------------------------------------------------------------
\* quality_gates.py
\* ------------------------------------------------------------------------
\* obligation_determinism_gate: the hashes of `runs` derivations are one value.  Each
\* derivation may meet any iteration order of the set of markers.
obligation_determinism_gate(python_code, runs) ==
    \A order1, order2 \in SetOrders(python_code.nodes) :
        canonical_hash(derive_in_order(python_code, order1))
            = canonical_hash(derive_in_order(python_code, order2))

assumption_coverage_gate(assumptions) == validate_assumptions(assumptions).ok

\* the texts generate_simple_mutations searches for, in the order of `replacements`
Replacements == << ">=", "<=", "==", "return balance", "if " >>

\* code.replace(source, target, 1) as source facts: "return balance" becomes
\* "return balance - amount", a subtraction in the function that holds it (the first one
\* in the sources used); the other replacements change no fact derive or a translator
\* looks at
Mutated(code, source) ==
    IF source = "return balance" /\ code.parses /\ Len(code.body) > 0
    THEN [ code EXCEPT !.body[1].has_minus = TRUE ]
    ELSE code

generate_simple_mutations(code) ==
    LET Occurs(source) == source \in code.text
        found == SelectSeq(Replacements, Occurs)
    IN  [ i \in 1..Len(found) |-> Mutated(code, found[i]) ]

\* minimum_kill_rate = 0.95, in percent
MinimumKillRate == 95

\* the verdicts that count a mutant as killed
KillingVerdicts == { VULNERABLE, UNVERIFIED, ERROR }

\* mutation_kill_rate_gate; evaluate_mutation[i] is what the evaluator returns for the
\* i-th mutant.  killed / total >= 0.95 is compared as killed * 100 >= 95 * total.
mutation_kill_rate_gate(original_code, evaluate_mutation) ==
    LET mutations == generate_simple_mutations(original_code)
        killed == Cardinality({ i \in 1..Len(mutations) :
                                  evaluate_mutation[i] \in KillingVerdicts })
    IN  IF Len(mutations) = 0
        THEN [ passed |-> FALSE, killed |-> 0, total |-> 0 ]
        ELSE [ passed |-> killed * 100 >= MinimumKillRate * Len(mutations),
               killed |-> killed, total |-> Len(mutations) ]

\* ------------------------------------------------------------------------
\* ci_integrity.py
\* ------------------------------------------------------------------------
\* "for " in code or "while " in code
_contains_loop(code) == "for " \in code.text \/ "while " \in code.text

_evaluate_mutation(mutated_code) ==
    LET policy == derive(mutated_code)
        translation ==
            IF _contains_loop(mutated_code)
            THEN dafny_translate(mutated_code, policy.obligations, << >>)
            ELSE ast_translate(mutated_code, policy.obligations, << >>)
    IN  IF Len(policy.unsupported_constructs) > 0 THEN UNVERIFIED
        ELSE IF Len(policy.obligations) = 0 THEN VERIFIED
        ELSE IF ~translation.success THEN UNVERIFIED
        ELSE IF ~run_semantic_guard(mutated_code, translation.code, policy.obligations).passed
        THEN UNVERIFIED
        ELSE VULNERABLE

_mutation_gate(file_list) ==
    \A i \in 1..Len(file_list) :
        LET mutations == generate_simple_mutations(file_list[i].code)
        IN  mutation_kill_rate_gate(
                file_list[i].code,
                [ k \in 1..Len(mutations) |-> _evaluate_mutation(mutations[k]) ]).passed

\* what benchmark_root leads to: no root given, no manifest.json under it, a manifest
\* with a case that fails, a manifest whose cases all come out as tagged
BenchmarkRoots == { "no_root", "no_manifest", "failing_case", "ok" }
_seeded_benchmark_gate(benchmark_root) == benchmark_root = "ok"

_traceability_gate(file_list, store, run_id) ==
    /\ IsSome(run_id)
    /\ Exists(store, Get(run_id), << >>, "manifest.json")
    /\ Exists(store, Get(run_id), << >>, "summary.json")
    /\ \A i \in 1..Len(file_list) :
         LET filename == file_list[i].filename
             Has(name) == Exists(store, Get(run_id), filename, name)
             unsupported ==
                 IF Has("01_discovery.json")
                 THEN store[TracePath(Get(run_id), filename, "01_discovery.json")].unsupported
                 ELSE TRUE
         IN  /\ Has("01_discovery.json")
             /\ Has("result.json")
             /\ ~unsupported =>
                    /\ Has("02_translation.lean") \/ Has("02_translation.dfy")
                    /\ Has("03_verify_stdout.txt")

\* report_by_file.get(filename): the last report of the list with that file name
ReportFor(report_list, filename) ==
    LET hits == { i \in 1..Len(report_list) : report_list[i].filename = filename }
    IN  IF hits = {} THEN None
        ELSE Some(report_list[CHOOSE i \in hits : \A j \in hits : j <= i])

\* one pass of the loop over `files` (lines 67-116): which failure lists get an entry
FileFailures(filename, code, report_list) ==
    LET policy_result == derive(code)
        found == ReportFor(report_list, filename)
        report == Get(found)
        unsupported == Len(policy_result.unsupported_constructs) > 0
        assumptions_ok == assumption_coverage_gate(report.assumptions)
        translation ==
            IF _contains_loop(code)
            THEN dafny_translate(code, policy_result.obligations, report.assumptions)
            ELSE ast_translate(code, policy_result.obligations, report.assumptions)
    IN  IF ~IsSome(found)
        THEN [ unsupported |-> FALSE, determinism |-> FALSE, assumption |-> FALSE,
               semantic |-> FALSE, proof |-> TRUE, verdict |-> TRUE,
               reproducibility |-> FALSE ]
        ELSE [ unsupported |-> unsupported,
               determinism |-> ~obligation_determinism_gate(code, 3),
               assumption |-> ~assumptions_ok,
               semantic |->
                   /\ ~unsupported
                   /\ \/ ~translation.success
                      \/ ~run_semantic_guard(code, translation.code,
                                             policy_result.obligations).passed,
               proof |-> report.verdict \notin { VERIFIED, FIXED },
               verdict |->
                   \/ unsupported /\ report.verdict # UNVERIFIED
                   \/ ~assumptions_ok /\ report.verdict # UNVERIFIED,
               reproducibility |-> ~obligation_determinism_gate(code, 2) ]

CIGateReport(gates) ==
    [ passed |-> \A name \in DOMAIN gates : gates[name], gates |-> gates ]

run_ci_integrity_suite(file_list, report_list, store, run_id, benchmark_root) ==
    LET failures == [ i \in 1..Len(file_list) |->
                        FileFailures(file_list[i].filename, file_list[i].code, report_list) ]
        NoFailure(kind) == \A i \in 1..Len(file_list) : ~failures[i][kind]
    IN  CIGateReport(
            [ unsupported_construct_gate |-> NoFailure("unsupported"),
              obligation_policy_gate |-> NoFailure("determinism"),
              assumption_evidence_gate |-> NoFailure("assumption"),
              semantic_guard_gate |-> NoFailure("semantic"),
              proof_gate |-> NoFailure("proof"),
              verdict_contract_gate |-> NoFailure("verdict"),
              traceability_gate |-> _traceability_gate(file_list, store, run_id),
              reproducibility_gate |-> NoFailure("reproducibility"),
              mutation_gate |-> _mutation_gate(file_list),
              seeded_benchmark_gate |-> _seeded_benchmark_gate(benchmark_root) ])

Next ==
    \/ RunFile
    \/ RunMany
    \/ Discover
    \/ Translate
    \/ Guard
    \/ Verify
    \/ RepairCycle

Spec == Init /\ [][Next]_vars

\* the processing of one file, every enabled step of it eventually taken
RunOneFile ==
    /\ RunMany
    /\ Len(files') = 1

NextFile ==
    \/ RunOneFile
    \/ Discover
    \/ Translate
    \/ Guard
    \/ Verify
    \/ RepairCycle

SpecFile == Init /\ [][NextFile]_vars /\ WF_vars(NextFile)

\* ------------------------------------------------------------------------
\* compute_verdict on arbitrary summaries
\* ------------------------------------------------------------------------
ResultLists ==
    UNION { [ 1..n -> { [ verified |-> b ] : b \in BOOLEAN } ] : n \in 0..MaxResults }

Summaries ==
    { VerificationSummary(r, av, u, g, e, rep) :
        r \in ResultLists, av \in BOOLEAN,
        u \in { << >>, << "async_function" >>, << "syntax_error" >> },
        g \in BOOLEAN, e \in BOOLEAN, rep \in BOOLEAN }

InitVerdict ==
    /\ pipeline_idle
    /\ summary_in \in { Some(x) : x \in Summaries }
    /\ decision_out = None
    /\ policy_idle
    /\ run_idle
    /\ mutation_idle
    /\ suite_idle
    /\ engine_idle

ComputeVerdict ==
    /\ IsSome(summary_in)
    /\ decision_out = None
    /\ decision_out' = Some(compute_verdict(Get(summary_in)))
    /\ UNCHANGED << pipeline_vars, summary_in, aux_vars >>

NextVerdict == ComputeVerdict

SpecVerdict == InitVerdict /\ [][NextVerdict]_vars

\* ------------------------------------------------------------------------
\* ObligationPolicy.derive on its own
\* ------------------------------------------------------------------------
\* Functions named `name`: one with none of the facts derive looks at, one per single
\* fact, one per kind of parameter name, and one with every fact.
PolicyFunctionsNamed(name) ==
    { FunctionDef(name, {}, FALSE, FALSE, FALSE, FALSE, FALSE),
      FunctionDef(name, {}, TRUE, FALSE, FALSE, FALSE, FALSE),
      FunctionDef(name, {}, FALSE, TRUE, FALSE, FALSE, FALSE),
      FunctionDef(name, {}, FALSE, FALSE, TRUE, FALSE, FALSE),
      FunctionDef(name, {}, FALSE, FALSE, FALSE, TRUE, FALSE),
      FunctionDef(name, {}, FALSE, FALSE, FALSE, FALSE, TRUE),
      FunctionDef(name, { "xs" }, FALSE, FALSE, FALSE, FALSE, FALSE),
      FunctionDef(name, { "Balance" }, FALSE, FALSE, FALSE, FALSE, FALSE),
      FunctionDef(name, { "state" }, FALSE, FALSE, FALSE, FALSE, FALSE),
      FunctionDef(name, { "Balance", "state" }, TRUE, TRUE, TRUE, TRUE, TRUE) }

PolicyFunctions == PolicyFunctionsNamed("total") \cup PolicyFunctionsNamed("withdraw")

\* the unsupported node kinds met elsewhere in the module (an async def or a class is
\* not a FunctionDef of the body)
PolicyNodeSets == { {}, { "async_function" }, { "async_function", "class_definition" } }

PolicySources ==
    { SrcSyntaxError }
    \cup UNION { { Module(TRUE, nodes, \E i \in 1..n : body[i].has_loop, body, {}) :
                      nodes \in PolicyNodeSets, body \in [ 1..n -> PolicyFunctions ] } :
                  n \in 0..MaxFunctions }

InitPolicy ==
    /\ pipeline_idle
    /\ verdict_idle
    /\ source_in \in { Some(code) : code \in PolicySources }
    /\ derivations = << >>
    /\ run_idle
    /\ mutation_idle
    /\ suite_idle
    /\ engine_idle

\* one call of derive on the source, followed by canonical_hash on its result
Derive ==
    /\ IsSome(source_in)
    /\ Len(derivations) < MaxDerivations
    /\ \E order \in SetOrders(Get(source_in).nodes) :
         LET result == derive_in_order(Get(source_in), order)
         IN  derivations' = Append(derivations,
                 [ order |-> order, result |-> result, hash |-> canonical_hash(result) ])
    /\ UNCHANGED << pipeline_vars, verdict_vars, source_in, run_vars, mutation_vars, suite_vars, engine_vars >>

NextPolicy == Derive

SpecPolicy == InitPolicy /\ [][NextPolicy]_vars

\* ------------------------------------------------------------------------
\* pipeline.py: several runs on one trace_root
\* ------------------------------------------------------------------------
\* Each invocation of run_file / run_many is followed through the files it writes: the
\* manifest, result.json of each file in turn (finalize), the summary.  The invocations
\* may belong to one pipeline instance or to several, in one process or in several.
RunFileLists == { << >>, << << "a.py" >> >>, << << "a.py" >>, << "b.py" >> >> }

\* path.write_text on the shared trace_root by invocation c
WriteShared(store, path, c) ==
    [ q \in (DOMAIN store) \cup { path } |->
        IF q = path
        THEN (IF path \in DOMAIN store THEN store[path] ELSE {}) \cup { c }
        ELSE store[q] ]

InitRuns ==
    /\ pipeline_idle
    /\ verdict_idle
    /\ policy_idle
    /\ now = FirstRunId
    /\ calls = << >>
    /\ shared_trace = << >>
    /\ mutation_idle
    /\ suite_idle
    /\ engine_idle

\* the clock moves on
Tick ==
    /\ now < MaxClock
    /\ now' = now + 1
    /\ UNCHANGED << pipeline_vars, verdict_vars, policy_vars, calls, shared_trace, mutation_vars, suite_vars, engine_vars >>

\* run_file / run_many up to the processing of the files: a new run id, last_run_id,
\* manifest.json
StartRun ==
    /\ Len(calls) < MaxCalls
    /\ \E names \in RunFileLists :
         LET run_id == _new_run_id(now)
             c == Len(calls) + 1
         IN  /\ calls' = Append(calls, [ run_id |-> run_id, todo |-> names, at |-> "running" ])
             /\ shared_trace' = WriteShared(shared_trace,
                                            TracePath(run_id, << >>, "manifest.json"), c)
    /\ UNCHANGED << pipeline_vars, verdict_vars, policy_vars, now, mutation_vars, suite_vars, engine_vars >>

\* _run_file on the next file of invocation c, as far as finalize() writing result.json
RunNextFile(c) ==
    /\ calls[c].at = "running"
    /\ Len(calls[c].todo) > 0
    /\ calls' = [ calls EXCEPT ![c].todo = Tail(@) ]
    /\ shared_trace' = WriteShared(shared_trace,
                                   TracePath(calls[c].run_id, Head(calls[c].todo), "result.json"),
                                   c)
    /\ UNCHANGED << pipeline_vars, verdict_vars, policy_vars, now, mutation_vars, suite_vars, engine_vars >>

\* _write_summary and the return of invocation c
FinishRun(c) ==
    /\ calls[c].at = "running"
    /\ Len(calls[c].todo) = 0
    /\ calls' = [ calls EXCEPT ![c].at = "returned" ]
    /\ shared_trace' = WriteShared(shared_trace,
                                   TracePath(calls[c].run_id, << >>, "summary.json"), c)
    /\ UNCHANGED << pipeline_vars, verdict_vars, policy_vars, now, mutation_vars, suite_vars, engine_vars >>

NextRuns ==
    \/ Tick
    \/ StartRun
    \/ \E c \in 1..Len(calls) : RunNextFile(c)
    \/ \E c \in 1..Len(calls) : FinishRun(c)

SpecRuns == InitRuns /\ [][NextRuns]_vars

\* ------------------------------------------------------------------------
\* quality_gates.py: mutation_kill_rate_gate on its own
\* ------------------------------------------------------------------------
\* A withdraw function whose text holds any of the searched substrings, and any
\* evaluator: one verdict per mutant.
MutationSources ==
    { Module(TRUE, {}, FALSE,
             << FunctionDef("withdraw", {"balance", "amount"}, FALSE, FALSE, TRUE, FALSE, FALSE) >>,
             text) : text \in SUBSET SeqToSet(Replacements) }

InitMutation ==
    /\ pipeline_idle
    /\ verdict_idle
    /\ policy_idle
    /\ run_idle
    /\ mutation_in \in
         { Some([ original_code |-> code, evaluate_mutation |-> evaluator ]) :
             code \in MutationSources,
             evaluator \in UNION { [ 1..n -> Verdict ] : n \in 0..Len(Replacements) } }
    /\ Len(Get(mutation_in).evaluate_mutation)
           = Len(generate_simple_mutations(Get(mutation_in).original_code))
    /\ mutation_out = None
    /\ suite_idle
    /\ engine_idle

MutationKillRateGate ==
    /\ IsSome(mutation_in)
    /\ mutation_out = None
    /\ mutation_out' = Some(mutation_kill_rate_gate(Get(mutation_in).original_code,
                                                    Get(mutation_in).evaluate_mutation))
    /\ UNCHANGED << pipeline_vars, verdict_vars, policy_vars, run_vars, mutation_in,
                    suite_vars, engine_vars >>

NextMutation == MutationKillRateGate

SpecMutation == InitMutation /\ [][NextMutation]_vars

\* ------------------------------------------------------------------------
\* ci_integrity.py: run_ci_integrity_suite on its own
\* ------------------------------------------------------------------------
FilenameOrder == << << "a.py" >>, << "b.py" >>, << "a.py", "_repaired" >> >>
GateSources == { SrcWithdraw, SrcAsyncWorker, SrcAddProductId }

GateFileLists ==
    UNION { { [ i \in 1..n |-> [ filename |-> FilenameOrder[i], code |-> codes[i] ] ] :
                codes \in [ 1..n -> GateSources ] } : n \in 1..MaxGateFiles }

\* the reports a caller may hand in for a file: none, or one with either verdict and
\* with or without an assumption that lacks evidence
GateReportsFor(file) ==
    { << >> }
    \cup { << [ filename |-> file.filename, verdict |-> v,
                obligations |-> derive(file.code).obligations, assumptions |-> a,
                engine |-> select_engine(file.code).engine, message |-> "" ] >> :
             v \in { VERIFIED, UNVERIFIED }, a \in { << >>, << AssumeNoEvidence >> } }

RECURSIVE Flatten(_)
Flatten(options) ==
    IF Len(options) = 0 THEN << >> ELSE Head(options) \o Flatten(Tail(options))

GateReportLists(file_list) ==
    { Flatten(choice) :
        choice \in { c \in [ 1..Len(file_list) -> UNION { GateReportsFor(file_list[i]) :
                                                           i \in 1..Len(file_list) } ] :
                       \A i \in 1..Len(file_list) : c[i] \in GateReportsFor(file_list[i]) } }

\* the trace a run of run_many leaves for the files under run id `run`: every artifact,
\* or without 03_verify_stdout.txt
RECURSIVE GateStore(_, _, _)
GateStore(file_list, run, with_stdout) ==
    IF Len(file_list) = 0
    THEN Write(Write(<< >>, TracePath(run, << >>, "manifest.json"), Text("batch")),
               TracePath(run, << >>, "summary.json"), Text("summary"))
    ELSE LET file == file_list[Len(file_list)]
             rest == GateStore(SubSeq(file_list, 1, Len(file_list) - 1), run, with_stdout)
             unsupported == Len(derive(file.code).unsupported_constructs) > 0
             base == Write(Write(rest, TracePath(run, file.filename, "01_discovery.json"),
                                 Content("discovery", unsupported, "", FALSE)),
                           TracePath(run, file.filename, "result.json"),
                           Content("result", FALSE, "", FALSE))
             translated == Write(base, TracePath(run, file.filename, "02_translation.lean"),
                                 Text("code"))
         IN  IF unsupported THEN base
             ELSE IF with_stdout
             THEN Write(translated, TracePath(run, file.filename, "03_verify_stdout.txt"),
                        Text("stdout"))
             ELSE translated

InitSuite ==
    /\ pipeline_idle
    /\ verdict_idle
    /\ policy_idle
    /\ run_idle
    /\ mutation_idle
    /\ engine_idle
    /\ suite_in \in
         { Some([ files |-> file_list,
                  store |-> GateStore(file_list, FirstRunId, with_stdout),
                  run_id |-> run_id,
                  benchmark_root |-> root ]) :
             file_list \in GateFileLists, with_stdout \in BOOLEAN,
             run_id \in { None, Some(FirstRunId) }, root \in { "no_root", "ok" } }
    /\ suite_reports = << >>
    /\ suite_out = None
    /\ suite_prev = None

\* one call of run_ci_integrity_suite on suite_in; the second call is given a report
\* list that differs from the one of the first
RunCiIntegritySuite ==
    /\ IsSome(suite_in)
    /\ suite_prev = None
    /\ \E report_list \in GateReportLists(Get(suite_in).files) :
         /\ IsSome(suite_out) => report_list # suite_reports
         /\ suite_reports' = report_list
         /\ suite_out' = Some(run_ci_integrity_suite(Get(suite_in).files, report_list,
                                                    Get(suite_in).store, Get(suite_in).run_id,
                                                    Get(suite_in).benchmark_root))
    /\ suite_prev' = suite_out
    /\ UNCHANGED << pipeline_vars, verdict_vars, policy_vars, run_vars, mutation_vars,
                    suite_in, engine_vars >>

NextSuite == RunCiIntegritySuite

SpecSuite == InitSuite /\ [][NextSuite]_vars

\* ------------------------------------------------------------------------
\* adapters/cli.py: main
\* ------------------------------------------------------------------------
\* has_blocking_verdicts (lines 87-89), from the counts of render_json_report
has_blocking_verdicts(report_list) ==
    LET Count(verdict) ==
            Cardinality({ i \in 1..Len(report_list) : report_list[i].verdict = verdict })
    IN  Count(VULNERABLE) > 0 \/ Count(UNVERIFIED) + Count(ERROR) > 0

main_exit_code_without_gates(report_list, ci_gate_report) ==
    IF has_blocking_verdicts(report_list) THEN 1 ELSE 0

\* the value main returns (lines 87-91); ci_gate_report is None outside ci mode
main_exit_code(report_list, ci_gate_report) ==
    LET gates_failed == IsSome(ci_gate_report) /\ ~Get(ci_gate_report).passed
    IN  IF has_blocking_verdicts(report_list) \/ gates_failed THEN 1 ELSE 0

CliResult(arg_mode, ci_gate_report, exit_code) ==
    [ mode |-> arg_mode, ci_gate_report |-> ci_gate_report, exit_code |-> exit_code ]

\* main starts with a pipeline nothing has run on; its PipelineConfig is the default but
\* for require_docker_verify
InitMain ==
    /\ Init
    /\ config.allow_repair

\* main found no file (lines 43-45)
MainNoFiles ==
    /\ pc = "idle"
    /\ \E arg_mode \in { "single", "ci" } : cli' = Some(CliResult(arg_mode, None, 0))
    /\ pc' = "exited"
    /\ UNCHANGED << config, environ, mode, last_run_id, files, results, reports, stack, trace,
                    last_done, summary_in, decision_out, aux_vars >>

\* main found files and calls run_many on them (line 49)
MainRunMany ==
    /\ RunMany
    /\ Len(files') > 0
    /\ Len(files') <= MaxMainFiles

\* main from the return of its run_many call to its own return (lines 51-91);
\* benchmarks/seeded under the repository has no manifest or passes
MainReturn ==
    /\ pc = "returned"
    /\ mode = "batch"
    /\ \E arg_mode \in { "single", "ci" }, benchmark_root \in { "no_manifest", "ok" } :
         LET ci_gate_report ==
                 IF arg_mode = "ci"
                 THEN Some(run_ci_integrity_suite(files, reports, trace, last_run_id,
                                                  benchmark_root))
                 ELSE None
         IN  /\ arg_mode = "single" => benchmark_root = "ok"
             /\ cli' = Some(CliResult(arg_mode, ci_gate_report,
                                      main_exit_code(reports, ci_gate_report)))
    /\ pc' = "exited"
    /\ UNCHANGED << config, environ, mode, last_run_id, files, results, reports, stack, trace,
                    last_done, summary_in, decision_out, aux_vars >>

NextMain ==
    \/ MainNoFiles
    \/ MainRunMany
    \/ Discover
    \/ Translate
    \/ Guard
    \/ Verify
    \/ RepairCycle
    \/ MainReturn

SpecMain == InitMain /\ [][NextMain]_vars

\* ------------------------------------------------------------------------
\* repair.py: RepairEngine.repair on its own
\* ------------------------------------------------------------------------
\* a call of repair on an engine with max_attempts, before the first cycle
RepairCall(max_attempts, api_key) ==
    [ max_attempts |-> max_attempts, api_key |-> api_key, attempts |-> << >>,
      result |-> None ]

\* one cycle that goes on to the next cycle even after a usable reply
repair_cycle_without_return(call, reply) ==
    LET attempt == Len(call.attempts) + 1
        gen == _generate_fix(call.api_key, reply)
        ok == IsSome(gen.fixed) /\ gen.err = ""
        attempts == Append(call.attempts, RepairAttempt(attempt, gen.fixed, ok, gen.err))
    IN  IF attempt >= call.max_attempts
        THEN [ call EXCEPT !.attempts = attempts,
                           !.result = Some(RepairResult(attempt, None, FALSE)) ]
        ELSE [ call EXCEPT !.attempts = attempts ]

\* lines 44-59: one cycle of the loop, with the return inside it or, after the last cycle,
\* the return that follows the loop
repair_cycle(call, reply) ==
    LET attempt == Len(call.attempts) + 1
        gen == _generate_fix(call.api_key, reply)
        ok == IsSome(gen.fixed) /\ gen.err = ""
        attempts == Append(call.attempts, RepairAttempt(attempt, gen.fixed, ok, gen.err))
    IN  IF ok
        THEN [ call EXCEPT !.attempts = attempts,
                           !.result = Some(RepairResult(attempt, gen.fixed, TRUE)) ]
        ELSE IF attempt >= call.max_attempts
        THEN [ call EXCEPT !.attempts = attempts,
                           !.result = Some(RepairResult(attempt, None, FALSE)) ]
        ELSE [ call EXCEPT !.attempts = attempts ]

InitRepair ==
    /\ pipeline_idle
    /\ verdict_idle
    /\ policy_idle
    /\ run_idle
    /\ mutation_idle
    /\ suite_idle
    /\ repair_call \in { Some(RepairCall(n, key)) : n \in 0..MaxEngineAttempts,
                                                    key \in BOOLEAN }
    /\ driver_call = None
    /\ gate_call = None

\* the next cycle of the loop; range(1, max_attempts + 1) of an engine with
\* max_attempts = 0 is empty and the call returns at once
RepairLoop ==
    /\ IsSome(repair_call)
    /\ Get(repair_call).result = None
    /\ IF Get(repair_call).max_attempts = 0
       THEN repair_call' = Some([ Get(repair_call) EXCEPT
                                    !.result = Some(RepairResult(0, None, FALSE)) ])
       ELSE \E reply \in RepairReplies :
                repair_call' = Some(repair_cycle(Get(repair_call), reply))
    /\ UNCHANGED << pipeline_vars, verdict_vars, policy_vars, run_vars, mutation_vars,
                    suite_vars, driver_call, gate_call >>

NextRepair == RepairLoop

SpecRepair == InitRepair /\ [][NextRepair]_vars

\* ------------------------------------------------------------------------
\* verifier/lean_verifier.py, verifier/dafny_verifier.py: one call of verify, step by step
\* ------------------------------------------------------------------------
\* artifacts handed to a driver: a clean one, one whose text holds "sorry" inside a
\* comment, one with the word `sorry` as a proof
DriverArtifacts ==
    { Artifact({ "withdraw" }, FALSE, FALSE, FALSE, FALSE, FALSE, TRUE),
      Artifact({ "withdraw" }, FALSE, TRUE, FALSE, FALSE, FALSE, TRUE),
      Artifact({ "withdraw" }, TRUE, TRUE, FALSE, FALSE, FALSE, TRUE) }

DriverObligations == { derive(SrcWithdraw).obligations, derive(SrcGetItem).obligations }

\* what Path.write_text does: the file is written, or an OSError is raised with the file
\* created or not, or the call is interrupted (KeyboardInterrupt) with the file created
\* or not
WriteOutcomes ==
    { [ kind |-> k, created |-> c ] : k \in { "oserror", "interrupt" }, c \in BOOLEAN }
    \cup { [ kind |-> "written", created |-> TRUE ] }

\* what subprocess.run does, an interruption of the wait included
DriverRuns ==
    EngineRuns \cup { [ kind |-> "interrupt", returncode |-> 1, error_count |-> FALSE ] }

\* a call of verify before its first statement
DriverCall(engine, proof_code, obligations, require_docker, env) ==
    [ engine |-> engine, proof_code |-> proof_code, obligations |-> obligations,
      require_docker |-> require_docker, env |-> env,
      at |-> "check",            \* check, write, run, finally, returned, raised
      file_exists |-> FALSE,     \* the scratch file argus_<uuid> of this call exists
      created |-> FALSE,         \* the call created its scratch file at some point
      spawned |-> FALSE,         \* the call spawned an engine process at some point
      run |-> None,              \* what subprocess.run did
      outcome |-> None,          \* the VerificationOutcome to return
      pending |-> FALSE ]        \* a KeyboardInterrupt is propagating

\* the outcome the `except Exception` clause builds
driver_error(call, message) ==
    run_driver(call.engine, call.proof_code, call.obligations, call.require_docker,
               call.env, [ kind |-> message, returncode |-> 1, error_count |-> FALSE ])

\* the scratch file is removed only on the way of a normal return
release_on_success_only(call) ==
    [ call EXCEPT !.file_exists =
                      IF ~call.pending /\ IsSome(call.outcome)
                         /\ ~Get(call.outcome).verification_error
                      THEN FALSE ELSE call.file_exists,
                  !.at = IF call.pending THEN "raised" ELSE "returned" ]

\* the finally clause: `if path.exists(): path.unlink()`, then the return or the
\* propagation of the exception
release(call) ==
    [ call EXCEPT !.file_exists = FALSE,
                  !.at = IF call.pending THEN "raised" ELSE "returned" ]

InitDriver ==
    /\ pipeline_idle
    /\ verdict_idle
    /\ policy_idle
    /\ run_idle
    /\ mutation_idle
    /\ suite_idle
    /\ repair_call = None
    /\ gate_call = None
    /\ driver_call \in
           { Some(DriverCall(engine, proof_code, obligations, require_docker,
                             [ GEMINI_API_KEY |-> FALSE, dockerenv |-> d,
                               ARGUS_ALLOW_LOCAL_VERIFY |-> a ])) :
                 engine \in { "lean", "dafny" }, proof_code \in DriverArtifacts,
                 obligations \in DriverObligations, require_docker \in BOOLEAN,
                 d \in BOOLEAN, a \in BOOLEAN }

\* the container check at the head of verify: the early return, or on into the try block
DriverCheck ==
    /\ IsSome(driver_call)
    /\ Get(driver_call).at = "check"
    /\ LET call == Get(driver_call)
       IN  IF docker_refused(call.require_docker, call.env)
           THEN driver_call' = Some([ call EXCEPT
                    !.outcome = Some(driver_error(call, "refused")),
                    !.at = "returned" ])
           ELSE driver_call' = Some([ call EXCEPT !.at = "write" ])
    /\ UNCHANGED << pipeline_vars, verdict_vars, policy_vars, run_vars, mutation_vars,
                    suite_vars, repair_call, gate_call >>

\* path.write_text(proof_code)
DriverWrite ==
    /\ IsSome(driver_call)
    /\ Get(driver_call).at = "write"
    /\ \E w \in WriteOutcomes :
         LET call == Get(driver_call)
             held == [ call EXCEPT !.file_exists = w.created, !.created = w.created ]
         IN  driver_call' = Some(
                 CASE w.kind = "written" -> [ held EXCEPT !.at = "run" ]
                   [] w.kind = "oserror" ->
                        [ held EXCEPT !.outcome = Some(driver_error(call, "oserror")),
                                      !.at = "finally" ]
                   [] w.kind = "interrupt" ->
                        [ held EXCEPT !.pending = TRUE, !.at = "finally" ])
    /\ UNCHANGED << pipeline_vars, verdict_vars, policy_vars, run_vars, mutation_vars,
                    suite_vars, repair_call, gate_call >>

\* subprocess.run and the lines that read its result, or the except clause
DriverRun ==
    /\ IsSome(driver_call)
    /\ Get(driver_call).at = "run"
    /\ \E run \in DriverRuns :
         LET call == Get(driver_call)
             ran == [ call EXCEPT !.run = Some(run),
                                  !.spawned = run.kind # "spawn_failure",
                                  !.at = "finally" ]
         IN  driver_call' = Some(
                 IF run.kind = "interrupt"
                 THEN [ ran EXCEPT !.pending = TRUE ]
                 ELSE [ ran EXCEPT !.outcome =
                            Some(run_driver(call.engine, call.proof_code, call.obligations,
                                            call.require_docker, call.env, run)) ])
    /\ UNCHANGED << pipeline_vars, verdict_vars, policy_vars, run_vars, mutation_vars,
                    suite_vars, repair_call, gate_call >>

DriverFinally ==
    /\ IsSome(driver_call)
    /\ Get(driver_call).at = "finally"
    /\ driver_call' = Some(release(Get(driver_call)))
    /\ UNCHANGED << pipeline_vars, verdict_vars, policy_vars, run_vars, mutation_vars,
                    suite_vars, repair_call, gate_call >>

NextDriver ==
    \/ DriverCheck
    \/ DriverWrite
    \/ DriverRun
    \/ DriverFinally

SpecDriver == InitDriver /\ [][NextDriver]_vars

\* ------------------------------------------------------------------------
\* pipeline.py lines 150-164 and ci_integrity.py lines 100-113 on the same file
\* ------------------------------------------------------------------------
GateCallSources == Sources \cup { SrcWhileParen, SrcForComment }

\* a file of a batch before the pipeline translates it
GateCall(code, assumptions, api_key) ==
    [ filename |-> << "a.py" >>, code |-> code, assumptions |-> assumptions,
      api_key |-> api_key,
      at |-> "pipeline",         \* pipeline, gate, done
      translation |-> None,      \* the outcome of ArgusPipeline._translate
      guard |-> None,            \* the SemanticGuardResult of the pipeline
      report |-> None,           \* the FileReport handed to the suite
      failures |-> None ]        \* the failure lists the suite's loop fills for the file

InitGateCall ==
    /\ pipeline_idle
    /\ verdict_idle
    /\ policy_idle
    /\ run_idle
    /\ mutation_idle
    /\ suite_idle
    /\ repair_call = None
    /\ driver_call = None
    /\ gate_call \in { Some(GateCall(code, assumptions, api_key)) :
                          code \in GateCallSources,
                          assumptions \in { << >>, << AssumeNoEvidence >> },
                          api_key \in BOOLEAN }

\* the pipeline on the file: nothing is translated for a source with unsupported
\* constructs (UNVERIFIED); otherwise _translate (ERROR when it fails), the guard on a
\* successful translation, and the verdict of the contract for what the driver then found
PipelineTranslateAndGuard ==
    /\ IsSome(gate_call)
    /\ Get(gate_call).at = "pipeline"
    /\ \E reply \in LLMReplies, proved \in { VERIFIED, VULNERABLE, ERROR } :
         LET call == Get(gate_call)
             policy == derive(call.code)
             unsupported == Len(policy.unsupported_constructs) > 0
             translation == _translate(call.code, policy.obligations, call.assumptions,
                                       call.api_key, reply)
             guard == run_semantic_guard(call.code, translation.code, policy.obligations)
             verdict == IF unsupported THEN UNVERIFIED
                        ELSE IF ~translation.success \/ proved = ERROR THEN ERROR
                        ELSE IF ~validate_assumptions(call.assumptions).ok \/ ~guard.passed
                        THEN UNVERIFIED
                        ELSE proved
             report == [ filename |-> call.filename,
                         verdict |-> verdict,
                         obligations |-> policy.obligations,
                         assumptions |-> call.assumptions,
                         engine |-> select_engine(call.code).engine, message |-> "" ]
         IN  gate_call' = Some([ call EXCEPT
                 !.at = "gate",
                 !.translation = IF unsupported THEN None ELSE Some(translation),
                 !.guard = IF unsupported \/ ~translation.success THEN None ELSE Some(guard),
                 !.report = Some(report) ])
    /\ UNCHANGED << pipeline_vars, verdict_vars, policy_vars, run_vars, mutation_vars,
                    suite_vars, repair_call, driver_call >>

\* the pass of the suite's loop over the file, with the report of the pipeline
GateRerun ==
    /\ IsSome(gate_call)
    /\ Get(gate_call).at = "gate"
    /\ LET call == Get(gate_call)
       IN  gate_call' = Some([ call EXCEPT
               !.at = "done",
               !.failures = Some(FileFailures(call.filename, call.code,
                                              << Get(call.report) >>)) ])
    /\ UNCHANGED << pipeline_vars, verdict_vars, policy_vars, run_vars, mutation_vars,
                    suite_vars, repair_call, driver_call >>

NextGateCall ==
    \/ PipelineTranslateAndGuard
    \/ GateRerun

SpecGateCall == InitGateCall /\ [][NextGateCall]_vars

\* ------------------------------------------------------------------------
\* Properties
\* ------------------------------------------------------------------------
\* the finished activations the state still holds: the last top-level one and its re-run
FinishedTop == IF IsSome(last_done) THEN { Get(last_done) } ELSE {}
FinishedRerun == { Get(f.rerun) : f \in { g \in FinishedTop : IsSome(g.rerun) } }
Finished_Frames == FinishedTop \cup FinishedRerun
LiveFrames == SeqToSet(stack)
AllFrames == Finished_Frames \cup LiveFrames

VerdictOf(f) == Get(f.result).verdict

\* the source has an unsupported construct, read off the syntax tree
HasUnsupported(code) == ~code.parses \/ code.nodes # {}

\* C1: compute_verdict returns the verdict of the first matching rule, in the order
\* verification_error => ERROR; unsupported constructs => UNVERIFIED; invalid assumptions
\* => UNVERIFIED; failed semantic guard => UNVERIFIED; all obligations passed and repaired
\* => FIXED; all obligations passed => VERIFIED; otherwise VULNERABLE.
C1_VerdictOrder ==
    IsSome(decision_out) =>
        LET sm == Get(summary_in)
            v == Get(decision_out).verdict
            passed == Len(sm.obligation_results) > 0
                      /\ \A i \in 1..Len(sm.obligation_results) : sm.obligation_results[i].verified
            r1 == sm.verification_error
            r2 == sm.unsupported_constructs # << >>
            r3 == ~sm.assumptions_valid
            r4 == ~sm.semantic_guard_passed
            r5 == passed /\ sm.repaired
            r6 == passed
        IN  /\ r1 => v = ERROR
            /\ (~r1 /\ r2) => v = UNVERIFIED
            /\ (~r1 /\ ~r2 /\ r3) => v = UNVERIFIED
            /\ (~r1 /\ ~r2 /\ ~r3 /\ r4) => v = UNVERIFIED
            /\ (~r1 /\ ~r2 /\ ~r3 /\ ~r4 /\ r5) => v = FIXED
            /\ (~r1 /\ ~r2 /\ ~r3 /\ ~r4 /\ ~r5 /\ r6) => v = VERIFIED
            /\ (~r1 /\ ~r2 /\ ~r3 /\ ~r4 /\ ~r5 /\ ~r6) => v = VULNERABLE

\* a summary with a verification error in which every later rule would have matched too
C1_Witness ==
    /\ IsSome(decision_out)
    /\ Get(summary_in).verification_error
    /\ Get(summary_in).unsupported_constructs # << >>
    /\ ~Get(summary_in).assumptions_valid
    /\ all_obligations_passed(Get(summary_in))
    /\ Get(summary_in).repaired
    /\ Get(decision_out).verdict = ERROR

\* every stage of the activation succeeded: no unsupported construct, valid assumptions,
\* successful translation, passing guard, verifier without error, non-empty all-verified
\* obligation results
AllStagesPassed(f) ==
    /\ ~HasUnsupported(f.python_code)
    /\ validate_from(f.assumed_inputs, 1, {}) = << >>
    /\ IsSome(f.translation) /\ Get(f.translation).success
    /\ IsSome(f.guard) /\ Get(f.guard).issues = << >>
    /\ IsSome(f.verification)
    /\ ~Get(f.verification).verification_error
    /\ Len(Get(f.verification).obligation_results) > 0
    /\ \A i \in 1..Len(Get(f.verification).obligation_results) :
           Get(f.verification).obligation_results[i].verified

\* C2: fail-closed. A file's verdict is VERIFIED only if every stage passed for its
\* source, and FIXED only if every stage passed for the repaired source on its re-run;
\* the verdict returned by run_file / run_many is the verdict of that activation.
C2_FailClosed ==
    \A f \in FinishedTop :
        /\ VerdictOf(f) \in Verdict
        /\ VerdictOf(f) = VERIFIED => AllStagesPassed(f)
        /\ VerdictOf(f) = FIXED =>
               /\ IsSome(f.rerun) /\ IsSome(f.repaired_code)
               /\ Get(f.rerun).python_code = Get(f.repaired_code)
               /\ AllStagesPassed(Get(f.rerun))
        /\ Len(results) > 0 /\ results[Len(results)] = Get(f.result)
        /\ (pc = "returned" /\ mode = "batch") =>
               /\ Len(reports) = Len(results)
               /\ \A i \in 1..Len(reports) : reports[i].verdict = results[i].verdict

\* a file that run_many reported FIXED
C2_Witness ==
    /\ pc = "returned" /\ mode = "batch"
    /\ \E i \in 1..Len(reports) : reports[i].verdict = FIXED
    /\ \E f \in FinishedTop : VerdictOf(f) = FIXED

\* C3: a source with an unsupported construct (or a syntax error) gets verdict UNVERIFIED
\* and never reaches the translator, the semantic guard, the verifier or the repair engine.
C3_UnsupportedUnverified ==
    \A f \in AllFrames :
        HasUnsupported(f.python_code) =>
            /\ f.at \in { "discover", "done" }
            /\ f.translation = None /\ f.guard = None /\ f.verification = None
            /\ f.attempts = << >> /\ f.repair_result = None /\ f.rerun = None
            /\ \A i \in 1..Len(f.stages) : f.stages[i] \in { "discovery", "verdict" }
            /\ f.at = "done" => VerdictOf(f) = UNVERIFIED

\* an unparseable file that was given its verdict
C3_Witness ==
    \E f \in FinishedTop :
        /\ ~f.python_code.parses
        /\ f.stages = << "discovery", "verdict" >>
        /\ VerdictOf(f) = UNVERIFIED

\* C4 as stated: a non-empty issue list of the semantic guard makes the verdict
\* UNVERIFIED whatever the verifier driver returns.
C4_GuardForcesUnverified ==
    \A f \in Finished_Frames :
        (IsSome(f.guard) /\ Get(f.guard).issues # << >>) =>
            Get(f.decision).verdict = UNVERIFIED

\* C4, amended: with a non-empty issue list of the semantic guard the verdict computed
\* for the artifact is UNVERIFIED when the verifier driver returns without a verification
\* error (proof passed or failed), and ERROR when it reports a verification error.
C4_GuardUnverifiedOrError ==
    \A f \in Finished_Frames :
        (IsSome(f.guard) /\ Get(f.guard).issues # << >>) =>
            /\ IsSome(f.verification)
            /\ Get(f.decision).verdict =
                   IF Get(f.verification).verification_error THEN ERROR ELSE UNVERIFIED
            /\ VerdictOf(f) = Get(f.decision).verdict

\* the guard found issues, the engine accepted the artifact, the verdict is UNVERIFIED
C4_Witness ==
    \E f \in FinishedTop :
        /\ IsSome(f.guard) /\ Get(f.guard).issues # << >>
        /\ all_obligations_passed(Get(f.verification))
        /\ VerdictOf(f) = UNVERIFIED

\* C5: FIXED is returned only after the repair engine produced a replacement source and
\* the re-run of all stages on exactly that source, with repair disabled and under the
\* same run_id, ended VERIFIED; the result carries that source.
C5_FixedOnlyAfterVerifiedRerun ==
    \A f \in FinishedTop :
        VerdictOf(f) = FIXED =>
            /\ IsSome(f.repair_result) /\ Get(f.repair_result).success
            /\ IsSome(f.rerun)
            /\ Some(Get(f.rerun).python_code) = Get(f.repair_result).fixed_code
            /\ ~Get(f.rerun).allow_repair
            /\ Get(f.rerun).run_id = f.run_id
            /\ Get(f.rerun).stages = << "discovery", "translation", "semantic_guard",
                                        "verification", "verdict" >>
            /\ VerdictOf(Get(f.rerun)) = VERIFIED
            /\ Get(f.result).repaired_code = Some(Get(f.rerun).python_code)

\* run_file returned FIXED after the second repair cycle produced the replacement
C5_Witness ==
    /\ pc = "returned" /\ mode = "single"
    /\ \E f \in FinishedTop :
           /\ VerdictOf(f) = FIXED
           /\ Get(f.repair_result).cycles = 2
           /\ VerdictOf(Get(f.rerun)) = VERIFIED

\* repair was attempted for the activation and did not lead to an accepted re-run
RepairFailed(f) ==
    /\ IsSome(f.repair_result)
    /\ \/ ~Get(f.repair_result).success
       \/ IsSome(f.rerun) /\ VerdictOf(Get(f.rerun)) \notin { VERIFIED, FIXED }

\* C6: when repair is attempted and fails (no replacement source, or a re-run that does
\* not end VERIFIED or FIXED), the verdict returned is the VULNERABLE of the first
\* verification.
C6_RepairFailureKeepsVulnerable ==
    \A f \in FinishedTop :
        RepairFailed(f) =>
            /\ Get(f.decision).verdict = VULNERABLE
            /\ VerdictOf(f) = VULNERABLE

\* the repair engine produced a replacement whose re-run ended UNVERIFIED
C6_Witness ==
    \E f \in FinishedTop :
        /\ IsSome(f.repair_result) /\ Get(f.repair_result).success
        /\ IsSome(f.rerun) /\ VerdictOf(Get(f.rerun)) = UNVERIFIED
        /\ VerdictOf(f) = VULNERABLE

\* C7: when translation fails for a file without unsupported constructs, the verdict is
\* ERROR and the semantic guard, the verifier and the repair engine are not invoked.
C7_TranslationFailureIsError ==
    \A f \in AllFrames :
        (IsSome(f.translation) /\ ~Get(f.translation).success) =>
            /\ ~HasUnsupported(f.python_code)
            /\ f.at = "done"
            /\ VerdictOf(f) = ERROR
            /\ f.guard = None /\ f.verification = None
            /\ f.attempts = << >> /\ f.repair_result = None /\ f.rerun = None
            /\ f.stages = << "discovery", "translation", "verdict" >>

\* the AST translator failed and the LLM translator had no credential
C7_Witness ==
    \E f \in FinishedTop :
        /\ IsSome(f.translation)
        /\ Get(f.translation).translator = "llm"
        /\ Get(f.translation).error = "GEMINI_API_KEY is not configured"
        /\ VerdictOf(f) = ERROR

\* the driver call of the activation left the normal path
NonNormalPath(f) ==
    \/ docker_refused(config.require_docker_verify, environ)
    \/ Get(f.engine_run) # "exit"

\* C8: on every non-normal path of a driver (refusal outside a container, timeout, spawn
\* failure) the outcome has verification_error = true and one unverified ObligationResult
\* per obligation, and the verdict of that activation is ERROR.
C8_DriverErrorIsError ==
    \A f \in Finished_Frames :
        (IsSome(f.verification) /\ NonNormalPath(f)) =>
            LET out == Get(f.verification)
                obligations == f.policy.obligations
            IN  /\ out.verification_error
                /\ Len(out.obligation_results) = Len(obligations)
                /\ \A i \in 1..Len(obligations) :
                       /\ out.obligation_results[i].obligation = obligations[i]
                       /\ ~out.obligation_results[i].verified
                /\ VerdictOf(f) = ERROR

\* the theorem engine timed out for a file with an obligation
C8_Witness ==
    \E f \in FinishedTop :
        /\ IsSome(f.verification)
        /\ Get(f.verification).engine = "lean"
        /\ Get(f.engine_run) = "timeout"
        /\ ~docker_refused(config.require_docker_verify, environ)
        /\ Len(f.policy.obligations) > 0
        /\ VerdictOf(f) = ERROR

\* C9 as stated: no failure of a stage propagates out of run_file or run_many as an
\* exception.
C9_NoExceptionEscapes == pc # "raised"

\* the artifacts under the trace directory of one input file
HasArtifact(filename, name) == Exists(trace, Get(last_run_id), filename, name)
HasTranslation(filename) ==
    HasArtifact(filename, "02_translation.lean") \/ HasArtifact(filename, "02_translation.dfy")

\* C10 as stated: after run_many returns, every input file has 01_discovery.json and
\* result.json, and has a translation file together with 03_verify_stdout.txt if and only
\* if the policy found no unsupported construct in it.
C10_TraceArtifacts ==
    (pc = "returned" /\ mode = "batch") =>
        \A i \in 1..Len(files) :
            /\ HasArtifact(files[i].filename, "01_discovery.json")
            /\ HasArtifact(files[i].filename, "result.json")
            /\ (HasTranslation(files[i].filename)
                    /\ HasArtifact(files[i].filename, "03_verify_stdout.txt"))
               <=> ~HasUnsupported(files[i].code)

\* C11: any two derivations of the same source return the same obligations in the same
\* order and the same unsupported_constructs, and their canonical hashes are identical.
C11_DeriveDeterministic ==
    \A i, j \in 1..Len(derivations) :
        /\ derivations[i].result = derivations[j].result
        /\ derivations[i].hash = derivations[j].hash

\* two derivations whose set of markers was iterated in different orders
C11_Witness ==
    /\ Len(derivations) = 2
    /\ derivations[1].order # derivations[2].order
    /\ Len(derivations[1].result.unsupported_constructs) = 2
    /\ Len(derivations[1].result.obligations) > 0

\* the condition the policy table gives for an obligation kind of a function
KindHolds(fn, kind) ==
    CASE kind = "non_negative_result" ->
             fn.has_minus \/ \E p \in fn.params : Lower(p) \in NUMERIC_HINT_NAMES
      [] kind = "bounds_safe_access" -> fn.has_subscript
      [] kind = "preserve_uniqueness" -> fn.has_list_append \/ fn.has_concat_append
      [] kind = "loop_progress_and_safety" -> fn.has_loop
      [] kind = "valid_state_transition" ->
             \E p \in fn.params : Lower(p) \in STATE_HINT_NAMES

IdIndex(id) == CHOOSE k \in 1..Len(IdOrder) : IdOrder[k] = id

C13_VerdictIgnoresDiscovery ==
    \A f \in AllFrames :
        (IsSome(f.decision) /\ IsSome(f.base_verdict)) =>
            Get(f.decision).verdict = Get(f.base_verdict)

\* C14 as stated: any two invocations of run_file / run_many on one trace_root have
\* distinct run ids, and no file of the trace is written by two of them.
C14_DistinctRunIds ==
    /\ \A c, d \in 1..Len(calls) : c # d => calls[c].run_id # calls[d].run_id
    /\ \A path \in DOMAIN shared_trace : Cardinality(shared_trace[path]) <= 1

\* C15 as stated: for a source whose only function contains a loop the router selects
\* the loop engine and the policy emits <fn>:loop_progress_and_safety, and when the loop
\* engine accepts the artifact and the assumptions are valid the verdict is VERIFIED.
C15_LoopScenarioVerified ==
    \A f \in AllFrames :
        ( /\ f.python_code.parses
          /\ Len(f.python_code.body) = 1
          /\ f.python_code.body[1].has_loop
          /\ f.assumptions_valid
          /\ IsSome(f.verification)
          /\ ~Get(f.verification).verification_error
          /\ \A i \in 1..Len(Get(f.verification).obligation_results) :
                Get(f.verification).obligation_results[i].verified )
        => /\ select_engine(f.python_code).engine = "dafny"
           /\ Get(f.verification).engine = "dafny"
           /\ \E i \in 1..Len(f.policy.obligations) :
                f.policy.obligations[i].id
                    = << f.python_code.body[1].name, "loop_progress_and_safety" >>
           /\ Get(f.decision).verdict = VERIFIED

\* C18 as stated: mutation_kill_rate_gate passes if and only if at least one mutant was
\* generated and killed / total >= 0.95, a mutant being killed exactly when the evaluator
\* returns a verdict other than VERIFIED; with no mutant the gate fails.
C18_MutationGatePasses ==
    IsSome(mutation_out) =>
        LET evaluator == Get(mutation_in).evaluate_mutation
            total == Len(generate_simple_mutations(Get(mutation_in).original_code))
            killed == Cardinality({ i \in 1..total : evaluator[i] # VERIFIED })
        IN  Get(mutation_out).passed <=> (total > 0 /\ killed * 100 >= 95 * total)

\* the file has a report and it says UNVERIFIED
ReportedUnverified(file) ==
    /\ IsSome(ReportFor(suite_reports, file.filename))
    /\ Get(ReportFor(suite_reports, file.filename)).verdict = UNVERIFIED

\* C16 as stated: the unsupported-construct gate passes if and only if every input file
\* for which the policy reports unsupported constructs has a report with verdict
\* UNVERIFIED.
C16_UnsupportedGate ==
    IsSome(suite_out) =>
        ( Get(suite_out).gates.unsupported_construct_gate
          <=> \A i \in 1..Len(Get(suite_in).files) :
                  HasUnsupported(Get(suite_in).files[i].code)
                      => ReportedUnverified(Get(suite_in).files[i]) )

\* a cause that makes UNVERIFIED the right verdict of the file: unsupported constructs,
\* an assumption without evidence, or a failure of translation and semantic guard
LegitimateCause(file) ==
    LET failures == FileFailures(file.filename, file.code, suite_reports)
    IN  HasUnsupported(file.code) \/ failures.assumption \/ failures.semantic

\* C17 as stated: the verdict-contract gate passes only if every file reported UNVERIFIED
\* has a legitimate cause for it.
C17_VerdictContractGate ==
    (IsSome(suite_out) /\ Get(suite_out).gates.verdict_contract_gate) =>
        \A i \in 1..Len(Get(suite_in).files) :
            ReportedUnverified(Get(suite_in).files[i])
                => LegitimateCause(Get(suite_in).files[i])

\* C19 as stated: two calls of run_ci_integrity_suite with the same files, trace store and
\* run id but different FileReport lists return the same result for every gate.
C19_GatesReadTraceOnly ==
    (IsSome(suite_out) /\ IsSome(suite_prev)) =>
        Get(suite_out).gates = Get(suite_prev).gates

RepairCalled(f) == f.at \in { "repair", "rerun" } \/ IsSome(f.repair_result)

\* an activation that is, or was, the re-run of a repaired source
Reruns == FinishedRerun \cup (IF Len(stack) = 2 THEN { stack[2] } ELSE {})

\* what holds of the repair engine in every state
RepairOnce ==
    /\ Len(stack) <= 2
    /\ \A f \in AllFrames :
           /\ RepairCalled(f) =>
                  /\ Get(f.decision).verdict = VULNERABLE
                  /\ f.allow_repair /\ config.allow_repair
                  /\ ~Get(f.verification).verification_error
                  /\ Len(SelectSeq(f.stages, LAMBDA s : s = "repair")) <= 1
           /\ ~RepairCalled(f) => (f.attempts = << >> /\ f.rerun = None)
           /\ Len(f.attempts) <= config.max_repair_attempts
    /\ \A r \in Reruns : ~RepairCalled(r) /\ ~r.allow_repair

\* C21: the repair engine is called for a file only when the first verdict is
\* VULNERABLE, repair is enabled and the verifier reported no verification error, and never
\* in the re-run of a repaired source: at most one repair call and one re-run per file;
\* and the processing of a file that has started comes to its end.
C21_RepairOnceAndTerminates ==
    /\ []RepairOnce
    /\ (pc = "running") ~> (pc \in { "returned", "raised" })

\* a re-run of a repaired source that itself ended VULNERABLE, with no second repair
C21_Witness ==
    /\ pc = "returned"
    /\ \E f \in FinishedTop :
           /\ IsSome(f.rerun)
           /\ Get(Get(f.rerun).decision).verdict = VULNERABLE
           /\ Get(f.rerun).stages = << "discovery", "translation", "semantic_guard",
                                       "verification", "verdict" >>

\* C22: repair runs at most max_attempts cycles and records one RepairAttempt per cycle,
\* numbered 1, 2, ... in order; it stops at the first cycle whose reply is non-empty and
\* raised no exception; the result has success = true iff some attempt returned a
\* non-empty reply, and then fixed_code is that reply; otherwise exactly max_attempts
\* attempts are recorded, success = false and fixed_code is absent.
C22_RepairLoop ==
    IsSome(repair_call) =>
        LET call == Get(repair_call)
            n == Len(call.attempts)
            Replied(i) == IsSome(call.attempts[i].fixed_code)
        IN  /\ n <= call.max_attempts
            /\ \A i \in 1..n :
                   /\ call.attempts[i].attempt = i
                   /\ call.attempts[i].success <=> Replied(i)
                   /\ Replied(i) => (i = n /\ IsSome(call.result))
            /\ IsSome(call.result) =>
                   LET result == Get(call.result)
                   IN  /\ result.cycles = n
                       /\ result.success <=> \E i \in 1..n : Replied(i)
                       /\ result.success => result.fixed_code = call.attempts[n].fixed_code
                       /\ ~result.success =>
                              (n = call.max_attempts /\ result.fixed_code = None)

\* a cycle without a usable reply, then one with a reply, on an engine that allows more
C22_Witness ==
    /\ IsSome(repair_call)
    /\ Get(repair_call).max_attempts > 2
    /\ Len(Get(repair_call).attempts) = 2
    /\ IsSome(Get(repair_call).result)
    /\ Get(Get(repair_call).result).success

\* the stages of _run_file in the order of its text
StageOrder ==
    << "discovery", "translation", "semantic_guard", "verification", "verdict", "repair" >>

\* the stages an activation went through are in that order, none twice, each after the
\* stage it depends on
StagesInOrder(f) ==
    LET Went(s) == \E i \in 1..Len(f.stages) : f.stages[i] = s
    IN  /\ f.stages = SelectSeq(StageOrder, Went)
        /\ f.stages # << >> => Went("discovery")
        /\ Went("semantic_guard") => Went("translation")
        /\ Went("verification") => Went("semantic_guard")
        /\ Went("verdict") /\ ~Went("verification") => f.at = "done"
        /\ Went("repair") => (Went("verdict") /\ IsSome(f.decision))

\* C23: within the processing of one file the stages occur in the order discovery,
\* translation, semantic guard, verification, verdict, and a repair call only after the
\* first verdict; run_many processes the files one at a time in the order of the input
\* list, the result.json of every earlier file being written when the next file starts,
\* and returns one report per input file in that order.
C23_Ordering ==
    /\ \A f \in AllFrames : StagesInOrder(f)
    /\ (mode = "batch" /\ pc \in { "running", "returned" }) =>
           /\ Len(results) <= Len(files)
           /\ \A i \in 1..Len(results) :
                  /\ results[i].filename = files[i].filename
                  /\ HasArtifact(files[i].filename, "result.json")
           /\ pc = "running" =>
                  /\ Len(results) < Len(files)
                  /\ stack[1].filename = files[Len(results) + 1].filename
                  /\ stack[1].python_code = files[Len(results) + 1].code
           /\ pc = "returned" =>
                  /\ Len(reports) = Len(files)
                  /\ \A i \in 1..Len(files) :
                         /\ reports[i].filename = files[i].filename
                         /\ reports[i].verdict = results[i].verdict

\* run_many returned for two different files, the second of which went through repair
C23_Witness ==
    /\ mode = "batch" /\ pc = "returned"
    /\ Len(files) = 2 /\ Len(reports) = 2
    /\ files[1].code # files[2].code
    /\ reports[1].verdict = UNVERIFIED
    /\ \E f \in FinishedTop :
           /\ f.filename = files[2].filename
           /\ f.stages = StageOrder

\* how often the stage occurs among the stages the activation went through
TimesWent(f, stage) == Len(SelectSeq(f.stages, LAMBDA s : s = stage))

\* C24: in each processing of a source the verifier driver that is invoked is the one of
\* the engine the router selects from that source, that engine is the language of the
\* translated artifact, the driver is invoked at most once, and no driver of the other
\* engine is invoked after a failed verification.
C24_OneShotEngine ==
    \A f \in AllFrames :
        /\ TimesWent(f, "verification") <= 1
        /\ IsSome(f.verification) <=> TimesWent(f, "verification") = 1
        /\ IsSome(f.verification) =>
               /\ Get(f.verification).engine = select_engine(f.python_code).engine
               /\ Get(f.translation).language = Get(f.verification).engine
               /\ \A i \in 1..Len(Get(f.verification).obligation_results) :
                      Get(f.verification).obligation_results[i].engine
                          = Get(f.verification).engine
        /\ (IsSome(f.translation) /\ Get(f.translation).success) =>
               Get(f.translation).language = select_engine(f.python_code).engine
        /\ (f.at = "done" /\ IsSome(f.verification) /\ VerdictOf(f) # FIXED) =>
               Get(f.result).engine = Get(f.verification).engine

\* the loop engine rejected the artifact of a source with a loop, and the file was given
\* its verdict with no other driver called
C24_Witness ==
    \E f \in FinishedTop :
        /\ f.python_code.has_loops
        /\ IsSome(f.verification)
        /\ Get(f.verification).engine = "dafny"
        /\ Get(f.engine_run) = "exit"
        /\ ~all_obligations_passed(Get(f.verification))
        /\ TimesWent(f, "verification") = 1

\* what the AST translator returns for the source of the activation
AstOutcome(f) == ast_translate(f.python_code, f.policy.obligations, f.assumed_inputs)

\* C25: the loop translator is used if and only if the router selects the loop engine;
\* otherwise the outcome is that of the AST translator when it succeeds, and the LLM
\* translator is called only after the AST translator returned an unsuccessful outcome:
\* never for a source of the loop engine, never after an AST success.
C25_TranslatorChoice ==
    \A f \in AllFrames :
        IsSome(f.translation) =>
            LET outcome == Get(f.translation)
                loop_engine == select_engine(f.python_code).engine = "dafny"
            IN  /\ outcome.translator \in { "ast", "llm", "dafny" }
                /\ outcome.translator = "dafny" <=> loop_engine
                /\ outcome.translator = "ast" <=> (~loop_engine /\ AstOutcome(f).success)
                /\ outcome.translator = "ast" => outcome = AstOutcome(f)
                /\ outcome.translator = "llm" <=> (~loop_engine /\ ~AstOutcome(f).success)
                /\ outcome.used_llm <=> outcome.translator = "llm"

\* the AST translator found no function, and the LLM translator supplied the artifact
C25_Witness ==
    \E f \in FinishedTop :
        /\ IsSome(f.translation)
        /\ ~AstOutcome(f).success
        /\ Get(f.translation).translator = "llm"
        /\ Get(f.translation).success
        /\ IsSome(f.verification)

\* the call of verify has been left, by a return or by a propagating exception
DriverLeft == IsSome(driver_call) /\ Get(driver_call).at \in { "returned", "raised" }

DriverRefused ==
    /\ IsSome(driver_call)
    /\ docker_refused(Get(driver_call).require_docker, Get(driver_call).env)

\* C26: for both drivers, whenever verify returns or is left by an exception or an
\* interruption, the scratch file the call created no longer exists (normal completion,
\* non-zero exit, timeout, spawn failure, interruption); when the container check
\* refuses, no scratch file is created and no engine process is spawned.
C26_ScratchReleased ==
    /\ DriverLeft => ~Get(driver_call).file_exists
    /\ DriverRefused =>
           /\ ~Get(driver_call).created
           /\ ~Get(driver_call).file_exists
           /\ ~Get(driver_call).spawned
           /\ Get(driver_call).at \in { "check", "returned" }

\* the loop driver created its file, the wait for the engine was interrupted, and the
\* call has been left by the exception
C26_Witness ==
    /\ DriverLeft
    /\ Get(driver_call).engine = "dafny"
    /\ Get(driver_call).at = "raised"
    /\ Get(driver_call).created
    /\ Get(driver_call).spawned
    /\ IsSome(Get(driver_call).run)
    /\ Get(Get(driver_call).run).kind = "interrupt"

\* every obligation result of the outcome is verified (VerificationOutcome.all_passed)
DriverSuccess(call) ==
    /\ IsSome(call.outcome)
    /\ Len(Get(call.outcome).obligation_results) > 0
    /\ \A i \in 1..Len(Get(call.outcome).obligation_results) :
           Get(call.outcome).obligation_results[i].verified

\* C27: each driver reports success (every obligation result verified, all sharing one
\* flag) if and only if the engine process exits with code 0, the artifact does not
\* contain the token `sorry` and, for the loop engine, the output reports no positive
\* error count; for the theorem driver and the loop driver alike.
C27_SuccessIff ==
    (IsSome(driver_call) /\ Get(driver_call).at = "returned") =>
        LET call == Get(driver_call)
            items == Get(call.outcome).obligation_results
        IN  /\ \A i, j \in 1..Len(items) : items[i].verified = items[j].verified
            /\ DriverSuccess(call) <=>
                   /\ IsSome(call.run)
                   /\ Get(call.run).kind = "exit"
                   /\ Get(call.run).returncode = 0
                   /\ ~call.proof_code.sorry_text
                   /\ call.engine = "dafny" => ~Get(call.run).error_count

\* C28: for every file without unsupported constructs the re-run of the semantic-guard
\* gate selects the same translator as the router did for the source, so whenever
\* translation and the semantic guard passed in the pipeline run, the gate records no
\* failure for the file.
C28_GateRerunAgrees ==
    (IsSome(gate_call) /\ Get(gate_call).at = "done"
         /\ Len(derive(Get(gate_call).code).unsupported_constructs) = 0) =>
        LET call == Get(gate_call)
        IN  /\ _contains_loop(call.code) <=> select_engine(call.code).engine = "dafny"
            /\ (IsSome(call.guard) /\ Get(call.translation).success /\ Get(call.guard).passed)
                   => ~Get(call.failures).semantic

\* C29: a pipeline result carries a repaired source, and its result.json records
\* "repaired": true, only when the verdict of that result is FIXED; a result with verdict
\* VULNERABLE, UNVERIFIED, ERROR or VERIFIED never carries repaired code.
C29_RepairedOnlyWhenFixed ==
    /\ \A f \in Finished_Frames :
           IsSome(Get(f.result).repaired_code) => VerdictOf(f) = FIXED
    /\ \A path \in DOMAIN trace :
           (path.name = "result.json" /\ trace[path].repaired) => trace[path].verdict = FIXED

\* the trace artifacts under the directory of one input file
DirOf(store, run_id, filename) ==
    { path \in DOMAIN store : path.run = run_id /\ path.dir = filename }

\* a step taken while the input file at the bottom of the activation stack is processed
\* leaves the directories of the other input files of the batch as they are
OtherDirsUntouched ==
    (pc = "running" /\ mode = "batch" /\ Len(stack) > 0) =>
        \A i \in 1..Len(files) :
            files[i].filename # stack[1].filename =>
                /\ DirOf(trace', stack[1].run_id, files[i].filename)
                       = DirOf(trace, stack[1].run_id, files[i].filename)
                /\ \A path \in DirOf(trace, stack[1].run_id, files[i].filename) :
                       trace'[path] = trace[path]

\* at the end of run_many the result.json of each input file holds the reported verdict
ResultJsonHoldsVerdict ==
    (pc = "returned" /\ mode = "batch") =>
        \A i \in 1..Len(files) :
            LET path == TracePath(Get(last_run_id), files[i].filename, "result.json")
            IN  /\ path \in DOMAIN trace
                /\ trace[path].verdict = reports[i].verdict

\* C30: within one run, processing an input file, the re-run of its repaired source under
\* "<filename>_repaired" included, never creates or overwrites a trace artifact in the
\* trace directory of a different input file of the batch; at the end of run_many each
\* input file's result.json holds the verdict reported for that file.
C30_TraceDirsApart == [][OtherDirsUntouched]_vars /\ []ResultJsonHoldsVerdict

====
